---- MODULE Spec2Model ----
(***************************************************************************)
(* Model of the course-catalog REST layer: the handlers of /api/courses,   *)
(* /api/courses/:id and /api/seed-courses, the token verification they     *)
(* call, and the server-side data-table helpers, over an external record   *)
(* store.                                                                  *)
(*                                                                         *)
(* Conventions.  A JavaScript string that may be undefined is a string     *)
(* with the value Absent; a number that may be undefined is a sequence,    *)
(* <<>> when undefined and <<n>> otherwise.  A price is counted in         *)
(* thousandths of the currency unit, so that price * 100 is a number of    *)
(* tenths of a cent and Math.round has something to round.                 *)
(***************************************************************************)
EXTENDS Integers, Sequences, FiniteSets, TLC

\* Bound: the number of records the external table can hold.
MaxCourses == 1

Absent == "absent"

Members == {"m1", "m2"}

CourseIds == 1..MaxCourses

VARIABLES
    configured, \* MEMBERSTACK_SECRET_KEY and MEMBERSTACK_APP_ID are both set
    store,      \* the external "courses" data table: record id -> record data
    req,        \* the last request handled
    resp,       \* the response to it
    calls,      \* the calls the handler made to the external data table
    migrate,    \* POST /api/migrate: the table check's answer and the response
    clamp,      \* the seed count: what was asked, what is sent, what is used
    conv,       \* a price taken through the write and read conversions
    seed,       \* a run of the seed handler's batch loop
    client,     \* the browser's course client: token sources and what it sent
    page,       \* the listing page: base list, filter inputs, displayed list
    resolver,   \* a login or signup result taken through the token resolution
    normal,     \* a raw record taken through the record normalizer
    pager,      \* a run of the pagination loop of the server's listCourses
    detail,     \* the course detail page: current id, fetches in flight, course
    auth        \* the browser's session: the SDK's member and the two cache entries

restVars == <<configured, store, req, resp, calls>>

\* The state outside the course handlers, which they leave alone.
nonRestVars ==
    <<migrate, clamp, conv, seed, client, page, resolver, normal, pager, detail, auth>>

vars == <<restVars, nonRestVars>>

(***************************************************************************)
(* JavaScript truthiness of optional strings and numbers.                  *)
(***************************************************************************)
TruthyS(s) == s # Absent /\ s # ""

TruthyN(n) == n # <<>> /\ n[1] # 0

\* Math.round(price * 100) for a price in thousandths: half rounds up.
RoundCents(milli) == (milli + 5) \div 10

\* priceCents / 100, as a price in thousandths.
CentsToPrice(cents) == cents * 10

(***************************************************************************)
(* Authorization header and token verification.                            *)
(***************************************************************************)
NoHeader == [scheme |-> "none", cred |-> ""]

AuthHeaders ==
    { NoHeader,
      [scheme |-> "Basic",  cred |-> "tok_m1"],
      [scheme |-> "Bearer", cred |-> "bad"],
      [scheme |-> "Bearer", cred |-> "err"],
      [scheme |-> "Bearer", cred |-> "tok_m1"],
      [scheme |-> "Bearer", cred |-> "tok_m2"] }

\* Mutant: the credential is taken whatever the scheme.
BearerToken_AnyScheme(h) == h.cred

\* authHeader?.startsWith("Bearer ") ? authHeader.substring(7) : null
BearerToken(h) == IF h.scheme = "Bearer" THEN h.cred ELSE Absent

NullMember == [isNull |-> TRUE, id |-> Absent, memberId |-> Absent]

\* The external SDK's admin.verifyToken: the member id a token was issued
\* for, "invalid" for any other token.
AdminVerify(token) ==
    CASE token = "tok_m1" -> "m1"
      [] token = "tok_m2" -> "m2"
      [] OTHER            -> "invalid"

\* POST /api/auth/verify-token, called with the token as Bearer header.
VerifyTokenRoute(token) ==
    LET verification == AdminVerify(token) IN
    IF ~TruthyS(token) THEN [status |-> 401, member |-> NullMember]
    ELSE IF verification = "invalid"
         THEN [status |-> 401, member |-> NullMember]
         ELSE [status |-> 200,
               member |-> [isNull |-> FALSE, id |-> verification,
                           memberId |-> verification]]

\* The fetch of the route by verifyToken: for the token "err" the call
\* itself fails and the fetch rejects.
FetchVerify(token) ==
    IF token = "err"
    THEN [rejected |-> TRUE, status |-> 0, member |-> NullMember]
    ELSE [rejected |-> FALSE, status |-> VerifyTokenRoute(token).status,
          member |-> VerifyTokenRoute(token).member]

\* verifyToken of lib/memberstack-api: null on 401, and null from the catch
\* block on a rejected fetch or on any other failing status.
verifyToken(token) ==
    LET response == FetchVerify(token) IN
    IF response.rejected THEN NullMember
    ELSE IF response.status # 200 THEN NullMember
    ELSE response.member

\* member.id || member.memberId
MemberIdOf(member) == IF TruthyS(member.id) THEN member.id ELSE member.memberId

(***************************************************************************)
(* The external data table.                                                *)
(***************************************************************************)
\* A record that was put into the table outside this application: it has
\* neither status nor owner_id, and carries a price instead of priceCents.
LegacyRecord ==
    [title |-> "T", owner_id |-> Absent, status |-> Absent,
     priceCents |-> <<>>, price |-> <<25000>>]

\* A course of m1 created with the price 49.99.
PricedRecord ==
    [title |-> "T", owner_id |-> "m1", status |-> "published",
     priceCents |-> <<4999>>, price |-> <<>>]

EmptyStore == [i \in {} |-> LegacyRecord]

\* How the dependency answers: "ok"; "down", every call fails; "write_down",
\* queries succeed and writes fail; "no_table", every call fails with a
\* 404 saying that the table was not found.
Ext == {"ok", "down", "write_down", "no_table"}

\* The answers tried on the handlers that only query or only create, and on
\* those that query and then write.
QueryExt == {"ok", "down", "no_table"}

MutateExt == {"ok", "down", "write_down"}

QueryFails(ext) == ext \in {"down", "no_table"}

WriteFails(ext) == ext # "ok"

\* The course object the helpers build from a stored record.
CourseOf(id, rec) ==
    [id |-> id, title |-> rec.title, owner_id |-> rec.owner_id,
     status |-> rec.status, priceCents |-> rec.priceCents,
     price |-> rec.price]

NoCourse == <<>>

RECURSIVE IdsFrom(_, _)
\* The ids of S in increasing order, from id i on.
IdsFrom(S, i) ==
    IF i > MaxCourses THEN <<>>
    ELSE IF i \in S THEN <<i>> \o IdsFrom(S, i + 1)
    ELSE IdsFrom(S, i + 1)

\* listCourses(ownerId): every record, or those the where clause keeps.
listCourses(st, ownerId) ==
    LET S == IF TruthyS(ownerId)
             THEN {i \in DOMAIN st : st[i].owner_id = ownerId}
             ELSE DOMAIN st
        ids == IdsFrom(S, 1)
    IN [k \in 1..Len(ids) |-> CourseOf(ids[k], st[ids[k]])]

(***************************************************************************)
(* Responses.                                                              *)
(***************************************************************************)
Response(status, error, courses, course) ==
    [status |-> status, error |-> error, courses |-> courses,
     course |-> course, created |-> 0, errors |-> 0, requested |-> 0]

ErrorResponse(status, error) == Response(status, error, <<>>, NoCourse)

\* A request body with no field set.
NoBody == [title |-> Absent, price |-> <<>>, status |-> Absent, owner_id |-> Absent]

NoRequest ==
    [op |-> "none", header |-> NoHeader, id |-> 0, ownerId |-> Absent,
     ext |-> "ok", body |-> NoBody, count |-> <<>>]

\* course.priceCents ? course.priceCents / 100 : (course.price || 0)
ReadPrice(course) ==
    IF TruthyN(course.priceCents) THEN <<CentsToPrice(course.priceCents[1])>>
    ELSE IF TruthyN(course.price) THEN course.price
    ELSE <<0>>

\* course.status || "published"
ReadStatus(course) == IF TruthyS(course.status) THEN course.status ELSE "published"

ProcessCourse(course) ==
    [course EXCEPT !.price = ReadPrice(course), !.status = ReadStatus(course)]

RECURSIVE FilterPublished(_)
FilterPublished(cs) ==
    IF cs = <<>> THEN <<>>
    ELSE IF Head(cs).status = "published"
         THEN <<Head(cs)>> \o FilterPublished(Tail(cs))
         ELSE FilterPublished(Tail(cs))

(***************************************************************************)
(* GET /api/courses                                                        *)
(***************************************************************************)
OwnerParams == {Absent, ""} \cup Members

\* Mutant: the owner filter is served to anyone.
OwnerFilterDenied_Never(ownerId, member) == FALSE

\* ownerId && !member
OwnerFilterDenied(ownerId, member) == TruthyS(ownerId) /\ member.isNull

ListGET(h, ownerId, ext) ==
    LET token  == BearerToken(h)
        member == IF TruthyS(token) THEN verifyToken(token) ELSE NullMember
        \* a body in none of the shapes listCourses knows ends its loop
        \* with no record collected
        courses   == IF ext = "bad_shape" THEN <<>> ELSE listCourses(store, ownerId)
        processed == [k \in 1..Len(courses) |-> ProcessCourse(courses[k])]
        filtered  == IF member.isNull /\ ~TruthyS(ownerId)
                     THEN FilterPublished(processed) ELSE processed
    IN
    /\ UNCHANGED nonRestVars
    /\ req' = [NoRequest EXCEPT !.op = "list", !.header = h,
                                !.ownerId = ownerId, !.ext = ext]
    /\ UNCHANGED <<configured, store>>
    /\ IF ~configured
       THEN /\ resp' = ErrorResponse(500, "Server configuration error")
            /\ calls' = {}
       ELSE IF OwnerFilterDenied(ownerId, member)
       THEN /\ resp' = ErrorResponse(401, "Authentication required to filter by owner_id")
            /\ calls' = {}
       ELSE IF QueryFails(ext)
       THEN /\ resp' = Response(200, "Unable to fetch courses via Admin REST API.",
                                <<>>, NoCourse)
            /\ calls' = {"query"}
       ELSE /\ resp' = Response(200, "", filtered, NoCourse)
            /\ calls' = {"query"}

\* The table after the dependency stored rec under id, and after it dropped id.
Put(f, id, rec) == [x \in (DOMAIN f) \cup {id} |-> IF x = id THEN rec ELSE f[x]]

Remove(f, id) == [x \in (DOMAIN f) \ {id} |-> f[x]]

HasRoom(st) == CourseIds \ DOMAIN st # {}

\* The id the dependency gives the next record.
NewId(st) == CHOOSE i \in CourseIds \ DOMAIN st :
                 \A j \in CourseIds \ DOMAIN st : i <= j

\* getCourse(courseId): findUnique, then findMany, then the direct GET.
\* With the dependency down the three requests fail and the last one makes
\* the helper throw; a 404 of the last one makes it return null.
getCourse(st, id, ext) ==
    IF ext = "down" THEN [kind |-> "throw", course |-> NoCourse]
    ELSE IF ext = "no_table" THEN [kind |-> "null", course |-> NoCourse]
    ELSE IF id \in DOMAIN st
         THEN [kind |-> "course", course |-> <<CourseOf(id, st[id])>>]
         ELSE [kind |-> "null", course |-> NoCourse]

(***************************************************************************)
(* GET /api/courses/:id                                                    *)
(***************************************************************************)
\* Mutant: only the literal status counts as published.
IsPublished_Literal(course) == course.status = "published"

\* course.status === "published" || course.status === undefined
IsPublished(course) == course.status = "published" \/ course.status = Absent

\* Mutant: every verified member passes for the owner.
IsOwner_AnyMember(course, member) == ~member.isNull /\ TruthyS(course.owner_id)

\* member && course.owner_id &&
\*   (member.id === course.owner_id || member.memberId === course.owner_id)
IsOwner(course, member) ==
    /\ ~member.isNull
    /\ TruthyS(course.owner_id)
    /\ (member.id = course.owner_id \/ member.memberId = course.owner_id)

\* The answer for an id that matches no course.
CourseNotFound == ErrorResponse(404, "Course not found")

\* The answer for a course the caller may not see.
AccessDenied == ErrorResponse(404, "Course not found or access denied")

CourseGET(h, id, ext) ==
    LET token  == BearerToken(h)
        member == IF TruthyS(token) THEN verifyToken(token) ELSE NullMember
        g      == getCourse(store, id, ext)
        course == g.course[1]
        isPublished == IsPublished(course)
        isOwner == IsOwner(course, member)
    IN
    /\ UNCHANGED nonRestVars
    /\ req' = [NoRequest EXCEPT !.op = "get", !.header = h, !.id = id, !.ext = ext]
    /\ UNCHANGED <<configured, store>>
    /\ IF ~configured
       THEN /\ resp' = ErrorResponse(500, "Server configuration error")
            /\ calls' = {}
       ELSE IF g.kind = "throw"
       THEN /\ resp' = ErrorResponse(500, "Failed to get course")
            /\ calls' = {"query"}
       ELSE IF g.kind = "null"
       THEN /\ resp' = CourseNotFound
            /\ calls' = {"query"}
       ELSE IF ~isPublished /\ ~isOwner
       THEN /\ resp' = AccessDenied
            /\ calls' = {"query"}
       ELSE /\ resp' = Response(200, "", <<>>,
                                <<[course EXCEPT !.price = ReadPrice(course)]>>)
            /\ calls' = {"query"}

(***************************************************************************)
(* POST /api/courses                                                       *)
(***************************************************************************)
PostBodies ==
    { NoBody,
      [NoBody EXCEPT !.title = ""],
      [NoBody EXCEPT !.title = "T"],
      [NoBody EXCEPT !.title = "T", !.status = "archived"],
      [NoBody EXCEPT !.title = "T", !.owner_id = "m2", !.status = "published"] }

\* Mutant: an empty title passes the check.
TitleMissing_UndefinedOnly(body) == body.title = Absent

\* !title
TitleMissing(body) == ~TruthyS(body.title)

\* Mutant: the body's owner_id, when there is one, is stored.
PostCourseData_BodyOwner(body, member) ==
    [title      |-> body.title,
     owner_id   |-> IF TruthyS(body.owner_id) THEN body.owner_id ELSE MemberIdOf(member),
     priceCents |-> IF TruthyN(body.price) THEN <<RoundCents(body.price[1])>> ELSE <<0>>,
     status     |-> IF TruthyS(body.status) THEN body.status ELSE "draft",
     price      |-> <<>>]

\* The courseData object the handler builds from the body.
PostCourseData(body, member) ==
    [title      |-> body.title,
     owner_id   |-> MemberIdOf(member),
     priceCents |-> IF TruthyN(body.price) THEN <<RoundCents(body.price[1])>> ELSE <<0>>,
     status     |-> IF TruthyS(body.status) THEN body.status ELSE "draft",
     price      |-> <<>>]

\* course.priceCents ? course.priceCents / 100 : course.price
PostResponsePrice(course) ==
    IF TruthyN(course.priceCents) THEN <<CentsToPrice(course.priceCents[1])>>
    ELSE course.price

CoursePOST(h, body, ext) ==
    LET token  == BearerToken(h)
        member == verifyToken(token)
        data   == PostCourseData(body, member)
        id     == NewId(store)
        course == CourseOf(id, data)
        creates == /\ configured /\ TruthyS(token) /\ ~member.isNull
                   /\ ~TitleMissing(body) /\ ~WriteFails(ext)
    IN
    /\ creates => HasRoom(store)
    /\ UNCHANGED nonRestVars
    /\ req' = [NoRequest EXCEPT !.op = "create", !.header = h, !.ext = ext,
                                !.body = body]
    /\ UNCHANGED configured
    /\ IF ~configured
       THEN /\ resp' = ErrorResponse(500, "Server configuration error")
            /\ calls' = {}
            /\ UNCHANGED store
       ELSE IF ~TruthyS(token)
       THEN /\ resp' = ErrorResponse(401, "Authentication required")
            /\ calls' = {}
            /\ UNCHANGED store
       ELSE IF member.isNull
       THEN /\ resp' = ErrorResponse(401, "Invalid token")
            /\ calls' = {}
            /\ UNCHANGED store
       ELSE IF TitleMissing(body)
       THEN /\ resp' = ErrorResponse(400, "Title is required")
            /\ calls' = {}
            /\ UNCHANGED store
       ELSE IF ext = "no_table"
       THEN /\ resp' = ErrorResponse(400, "Courses table not found. Please create the table first.")
            /\ calls' = {"create"}
            /\ UNCHANGED store
       ELSE IF WriteFails(ext)
       THEN /\ resp' = ErrorResponse(500, "Failed to create course")
            /\ calls' = {"create"}
            /\ UNCHANGED store
       ELSE /\ store' = Put(store, id, data)
            /\ resp' = Response(201, "", <<>>,
                   <<[course EXCEPT !.price = PostResponsePrice(course)]>>)
            /\ calls' = {"create"}

(***************************************************************************)
(* PUT /api/courses/:id                                                    *)
(***************************************************************************)
\* Mutant: the ownership check is missing.
NotOwner_Never(existingCourse, memberId) == FALSE

\* existingCourse.owner_id !== memberId
NotOwner(existingCourse, memberId) == existingCourse.owner_id # memberId

PutBodies ==
    { [NoBody EXCEPT !.status = "published"],
      [NoBody EXCEPT !.status = "archived"],
      [NoBody EXCEPT !.owner_id = "m2"] }

\* The updates object sent to updateCourse: the body's fields, with price
\* replaced by priceCents when price is truthy.
PutUpdates(body) ==
    IF TruthyN(body.price)
    THEN [title |-> body.title, status |-> body.status, owner_id |-> body.owner_id,
          priceCents |-> <<RoundCents(body.price[1])>>, price |-> <<>>]
    ELSE [title |-> body.title, status |-> body.status, owner_id |-> body.owner_id,
          priceCents |-> <<>>, price |-> body.price]

\* The record after the dependency's PUT: the fields sent replace the
\* stored ones, the others stay.
ApplyUpdates(rec, u) ==
    [title      |-> IF u.title # Absent THEN u.title ELSE rec.title,
     status     |-> IF u.status # Absent THEN u.status ELSE rec.status,
     owner_id   |-> IF u.owner_id # Absent THEN u.owner_id ELSE rec.owner_id,
     priceCents |-> IF u.priceCents # <<>> THEN u.priceCents ELSE rec.priceCents,
     price      |-> IF u.price # <<>> THEN u.price ELSE rec.price]

CoursePUT(h, id, body, ext) ==
    LET token  == BearerToken(h)
        member == verifyToken(token)
        g      == getCourse(store, id, ext)
        existingCourse == g.course[1]
        memberId == MemberIdOf(member)
        updated  == ApplyUpdates(store[id], PutUpdates(body))
        course   == CourseOf(id, updated)
    IN
    /\ UNCHANGED nonRestVars
    /\ req' = [NoRequest EXCEPT !.op = "update", !.header = h, !.id = id,
                                !.ext = ext, !.body = body]
    /\ UNCHANGED configured
    /\ IF ~configured
       THEN /\ resp' = ErrorResponse(500, "Server configuration error")
            /\ calls' = {}
            /\ UNCHANGED store
       ELSE IF ~TruthyS(token)
       THEN /\ resp' = ErrorResponse(401, "Authentication required")
            /\ calls' = {}
            /\ UNCHANGED store
       ELSE IF member.isNull
       THEN /\ resp' = ErrorResponse(401, "Invalid token")
            /\ calls' = {}
            /\ UNCHANGED store
       ELSE IF g.kind = "throw"
       THEN /\ resp' = ErrorResponse(500, "Failed to get course")
            /\ calls' = {"query"}
            /\ UNCHANGED store
       ELSE IF g.kind = "null"
       THEN /\ resp' = ErrorResponse(404, "Course not found")
            /\ calls' = {"query"}
            /\ UNCHANGED store
       ELSE IF NotOwner(existingCourse, memberId)
       THEN /\ resp' = ErrorResponse(403, "You don't have permission to update this course")
            /\ calls' = {"query"}
            /\ UNCHANGED store
       ELSE IF WriteFails(ext)
       THEN /\ resp' = ErrorResponse(500, "Failed to update course")
            /\ calls' = {"query", "update"}
            /\ UNCHANGED store
       ELSE /\ store' = [store EXCEPT ![id] = updated]
            /\ resp' = Response(200, "", <<>>,
                                <<[course EXCEPT !.price = ReadPrice(course)]>>)
            /\ calls' = {"query", "update"}

(***************************************************************************)
(* DELETE /api/courses/:id                                                 *)
(***************************************************************************)
CourseDELETE(h, id, ext) ==
    LET token  == BearerToken(h)
        member == verifyToken(token)
        g      == getCourse(store, id, ext)
        existingCourse == g.course[1]
        memberId == MemberIdOf(member)
    IN
    /\ UNCHANGED nonRestVars
    /\ req' = [NoRequest EXCEPT !.op = "delete", !.header = h, !.id = id, !.ext = ext]
    /\ UNCHANGED configured
    /\ IF ~configured
       THEN /\ resp' = ErrorResponse(500, "Server configuration error")
            /\ calls' = {}
            /\ UNCHANGED store
       ELSE IF ~TruthyS(token)
       THEN /\ resp' = ErrorResponse(401, "Authentication required")
            /\ calls' = {}
            /\ UNCHANGED store
       ELSE IF member.isNull
       THEN /\ resp' = ErrorResponse(401, "Invalid token")
            /\ calls' = {}
            /\ UNCHANGED store
       ELSE IF g.kind = "throw"
       THEN /\ resp' = ErrorResponse(500, "Failed to get course")
            /\ calls' = {"query"}
            /\ UNCHANGED store
       ELSE IF g.kind = "null"
       THEN /\ resp' = ErrorResponse(404, "Course not found")
            /\ calls' = {"query"}
            /\ UNCHANGED store
       ELSE IF NotOwner(existingCourse, memberId)
       THEN /\ resp' = ErrorResponse(403, "You don't have permission to delete this course")
            /\ calls' = {"query"}
            /\ UNCHANGED store
       ELSE IF WriteFails(ext)
       THEN /\ resp' = ErrorResponse(500, "Failed to delete course")
            /\ calls' = {"query", "delete"}
            /\ UNCHANGED store
       ELSE /\ store' = Remove(store, id)
            /\ resp' = Response(200, "", <<>>, NoCourse)
            /\ calls' = {"query", "delete"}

(***************************************************************************)
(* POST /api/seed-courses                                                  *)
(***************************************************************************)
DefaultSeedCount == 50

MaxSeedCount == 200

Min(a, b) == IF a < b THEN a ELSE b

Max(a, b) == IF a > b THEN a ELSE b

\* Math.min(Math.max(parseInt(countParam, 10) || 50, 1), 200), countParam
\* being the count parameter or "50" without one.
SeedCount(countParam) ==
    LET n == IF countParam = <<>> THEN DefaultSeedCount ELSE countParam[1]
        m == IF n = 0 THEN DefaultSeedCount ELSE n
    IN Min(Max(m, 1), MaxSeedCount)

TemplateTitles ==
    << "Introduction to Web Development", "Advanced React Patterns",
       "Full-Stack Next.js Development", "Python for Data Science",
       "Machine Learning Fundamentals", "UI/UX Design Principles",
       "Mobile App Development with React Native", "Docker and Kubernetes",
       "GraphQL API Development", "TypeScript Mastery" >>

\* The templates' prices, in thousandths.
TemplatePrices ==
    << 49990, 79990, 99990, 89990, 129990, 69990, 94990, 109990, 84990, 74990 >>

\* The record sent for the course of index i (from 0) out of count.  The
\* " - Part n" suffix of the later variations' titles is left out.
SeedRecord(i, count, memberId) ==
    LET t == (i % Len(TemplatePrices)) + 1
        variation == i \div Len(TemplatePrices)
    IN [title      |-> TemplateTitles[t],
        owner_id   |-> memberId,
        priceCents |-> <<RoundCents(TemplatePrices[t] + variation * 10000)>>,
        status     |-> IF i < (count * 8) \div 10 THEN "published" ELSE "draft",
        price      |-> <<>>]

RECURSIVE StoreSeeded(_, _, _, _, _)
\* The table after the creations of the records of index i..count-1, of
\* which those whose number (index + 1) is in okSet succeed.
StoreSeeded(st, i, count, okSet, memberId) ==
    IF i >= count THEN st
    ELSE IF (i + 1) \in okSet
         THEN StoreSeeded(Put(st, NewId(st), SeedRecord(i, count, memberId)),
                          i + 1, count, okSet, memberId)
         ELSE StoreSeeded(st, i + 1, count, okSet, memberId)

SeedCountParams == {<<1>>, <<-2>>}

SeedPOST(h, countParam, okSet) ==
    LET token  == BearerToken(h)
        member == verifyToken(token)
        count  == SeedCount(countParam)
        seeds  == configured /\ TruthyS(token) /\ ~member.isNull
    IN
    /\ IF seeds
       THEN /\ okSet \subseteq 1..count
            /\ Cardinality(okSet) <= Cardinality(CourseIds \ DOMAIN store)
       ELSE okSet = {}
    /\ UNCHANGED nonRestVars
    /\ req' = [NoRequest EXCEPT !.op = "seed", !.header = h, !.count = countParam]
    /\ UNCHANGED configured
    /\ IF ~configured
       THEN /\ resp' = ErrorResponse(500, "Server configuration error")
            /\ calls' = {}
            /\ UNCHANGED store
       ELSE IF ~TruthyS(token)
       THEN /\ resp' = ErrorResponse(401, "Authentication required")
            /\ calls' = {}
            /\ UNCHANGED store
       ELSE IF member.isNull
       THEN /\ resp' = ErrorResponse(401, "Invalid token")
            /\ calls' = {}
            /\ UNCHANGED store
       ELSE /\ store' = StoreSeeded(store, 0, count, okSet, MemberIdOf(member))
            /\ resp' = [Response(200, "", <<>>, NoCourse) EXCEPT
                           !.requested = count,
                           !.created = Cardinality(okSet),
                           !.errors = count - Cardinality(okSet)]
            /\ calls' = {"create"}

(***************************************************************************)
(* The seed count, from the caller to the handler's loop bound.  A count   *)
(* reaches the handler either in a request made directly, or through the   *)
(* client's seedCourses(count), which puts it in the URL.                  *)
(***************************************************************************)
\* Bounds: the counts asked for range over -MaxBelowZero..MaxAsked.
MaxBelowZero == 2

MaxAsked == 203

AskedCounts == {<<>>} \cup {<<n>> : n \in (0 - MaxBelowZero)..MaxAsked}

IdleClamp == [via |-> "none", asked |-> <<>>, sent |-> <<>>, used |-> 0]

\* seedCourses(count = 50): the count parameter of the URL, set when
\* count !== 50.
ClientCountParam(count) ==
    LET c == IF count = <<>> THEN DefaultSeedCount ELSE count[1]
    IN IF c # DefaultSeedCount THEN <<c>> ELSE <<>>

\* A request made directly with the count parameter countParam.
SeedDirect(countParam) ==
    /\ clamp' = [via |-> "direct", asked |-> countParam, sent |-> countParam,
                 used |-> SeedCount(countParam)]
    /\ UNCHANGED <<restVars, migrate, conv, seed, client, page, resolver, normal, pager, detail, auth>>

\* seedCourses(count) of the client, followed by the handler.
SeedViaClient(count) ==
    /\ clamp' = [via |-> "client", asked |-> count,
                 sent |-> ClientCountParam(count),
                 used |-> SeedCount(ClientCountParam(count))]
    /\ UNCHANGED <<restVars, migrate, conv, seed, client, page, resolver, normal, pager, detail, auth>>

(***************************************************************************)
(* A price taken through the conversions: written by the create, update or *)
(* seed path, read back as the handler's response reports it, and written *)
(* and read a second time.                                                 *)
(***************************************************************************)
\* Bound: the prices tried are 0..MaxPrice thousandths.
MaxPrice == 120

\* Bound: the seed records tried have the indexes 0..MaxSeedIndex.
MaxSeedIndex == 25

IdleConv == [path |-> "none", p |-> <<>>, reported |-> <<>>, again |-> <<>>]

PriceBody(price) == [NoBody EXCEPT !.title = "T", !.price = price]

\* The price the POST response reports for a body with this price.
CreatedPrice(price) ==
    PostResponsePrice(CourseOf(1, PostCourseData(PriceBody(price), verifyToken("tok_m1"))))

\* The price a GET reports after a PUT with this price on the record rec.
UpdatedPrice(rec, price) ==
    ReadPrice(CourseOf(1, ApplyUpdates(rec, PutUpdates(PriceBody(price)))))

\* template.price + variation * 10, in thousandths.
SeedPrice(i) ==
    TemplatePrices[(i % Len(TemplatePrices)) + 1] + (i \div Len(TemplatePrices)) * 10000

ConvCreate(p) ==
    /\ conv' = [path |-> "create", p |-> <<p>>,
                reported |-> CreatedPrice(<<p>>),
                again |-> CreatedPrice(CreatedPrice(<<p>>))]
    /\ UNCHANGED <<restVars, migrate, clamp, seed, client, page, resolver, normal, pager, detail, auth>>

ConvUpdate(p) ==
    LET after == ApplyUpdates(PricedRecord, PutUpdates(PriceBody(<<p>>)))
    IN
    /\ conv' = [path |-> "update", p |-> <<p>>,
                reported |-> UpdatedPrice(PricedRecord, <<p>>),
                again |-> UpdatedPrice(after, UpdatedPrice(PricedRecord, <<p>>))]
    /\ UNCHANGED <<restVars, migrate, clamp, seed, client, page, resolver, normal, pager, detail, auth>>

ConvSeed(i) ==
    LET rec == SeedRecord(i, DefaultSeedCount, "m1")
        reported == ReadPrice(CourseOf(1, rec))
    IN
    /\ conv' = [path |-> "seed", p |-> <<SeedPrice(i)>>,
                reported |-> reported,
                again |-> ReadPrice(CourseOf(1,
                            [rec EXCEPT !.priceCents = <<RoundCents(reported[1])>>]))]
    /\ UNCHANGED <<restVars, migrate, clamp, seed, client, page, resolver, normal, pager, detail, auth>>

(***************************************************************************)
(* POST /api/migrate.  The handler queries the courses table once.  The    *)
(* text of a failing answer is modelled by the two things the handler      *)
(* looks for in it: whether it contains "404" and whether it contains      *)
(* "not found".  A successful answer carries a JSON body.                  *)
(***************************************************************************)
\* The HTTP statuses the table check is answered with.
CheckStatuses == (200..204) \cup (400..415) \cup (500..504)

Mentions == SUBSET {"404", "not found"}

NoCheck == [kind |-> "none", status |-> 0, text |-> {}]

\* The answers of the table check, and the fetches that reject with an
\* error of the given message.
Checks ==
    {[kind |-> "answer", status |-> st, text |-> t] : st \in CheckStatuses, t \in Mentions}
    \cup {[kind |-> "rejected", status |-> 0, text |-> t] : t \in Mentions}

MigrateResponse(status, tableExists, needsCreation) ==
    [status |-> status, tableExists |-> tableExists, needsCreation |-> needsCreation]

IdleMigrate ==
    [secretKey |-> TRUE, appId |-> TRUE, check |-> NoCheck,
     resp |-> MigrateResponse(0, <<>>, <<>>)]

\* checkResponse.ok
CheckOk(c) == c.kind = "answer" /\ c.status >= 200 /\ c.status <= 299

\* What checkError.message contains: for a failing answer the message is
\* `Failed to check table: ${status} ${errorText}`, for a rejected fetch it
\* is the fetch's own.
ErrorMentions(c) ==
    IF c.kind = "answer" /\ c.status = 404 THEN c.text \cup {"404"} ELSE c.text

\* The schema and instructions payload for a missing table.
TableMissing == MigrateResponse(200, <<FALSE>>, <<TRUE>>)

\* The response once the check has answered c.
MigrateAnswer(c) ==
    IF CheckOk(c) THEN MigrateResponse(200, <<TRUE>>, <<>>)
    ELSE IF c.kind = "answer" /\ c.status = 404 THEN TableMissing
    ELSE IF ErrorMentions(c) # {} THEN TableMissing
    ELSE MigrateResponse(500, <<>>, <<>>)

MigratePOST(c) ==
    /\ IF ~migrate.secretKey \/ ~migrate.appId
       THEN migrate' = [migrate EXCEPT !.check = NoCheck,
                                       !.resp = MigrateResponse(500, <<>>, <<>>)]
       ELSE migrate' = [migrate EXCEPT !.check = c, !.resp = MigrateAnswer(c)]
    /\ UNCHANGED <<restVars, clamp, conv, seed, client, page, resolver, normal, pager, detail, auth>>

\* GET /api/migrate: a description of the endpoint, without any check.
MigrateGET ==
    /\ migrate' = [migrate EXCEPT !.check = NoCheck,
                                  !.resp = MigrateResponse(200, <<>>, <<>>)]
    /\ UNCHANGED <<restVars, clamp, conv, seed, client, page, resolver, normal, pager, detail, auth>>

(***************************************************************************)
(* The browser's course client.  A call resolves a token from the cached   *)
(* memberstack_token and, without one, from getToken() of the SDK wrapper, *)
(* which stores a token it finds.  The record of the last call tells       *)
(* whether an HTTP request was sent, with which token, and the error the   *)
(* call raised.                                                            *)
(***************************************************************************)
ClientOps == {"list", "get", "create", "update", "delete", "seed"}

\* localStorage.getItem("memberstack_token")
CachedTokens == {Absent, "tok_m1", "bad"}

\* What the SDK holds: no token, a token, or "throws" when asking fails.
SdkTokens == {Absent, "tok_m1", "bad", "throws"}

NoCall == [op |-> "none", sent |-> FALSE, auth |-> Absent, error |-> ""]

IdleClient == [window |-> TRUE, cached |-> Absent, sdk |-> Absent, last |-> NoCall]

\* getToken(): null outside a browser and when the SDK has none or fails.
getToken(c) ==
    IF ~c.window THEN Absent
    ELSE IF TruthyS(c.cached) THEN c.cached
    ELSE IF c.sdk = "throws" THEN Absent
    ELSE c.sdk

\* The token getAuthHeaders() puts into the Authorization header, Absent
\* when it adds no such header.
AuthToken(c) ==
    IF ~c.window THEN Absent
    ELSE IF TruthyS(c.cached) THEN c.cached
    ELSE IF TruthyS(getToken(c)) THEN getToken(c)
    ELSE Absent

\* The cache once getAuthHeaders() has returned.
CacheAfterAuth(c) ==
    IF c.window /\ ~TruthyS(c.cached) /\ TruthyS(getToken(c)) THEN getToken(c)
    ELSE c.cached

\* The endpoint answers 401: the course handlers for a mutation without a
\* verifiable token, the seed handler likewise.
Answers401(op, token) ==
    /\ op \in {"create", "update", "delete", "seed"}
    /\ (~TruthyS(token) \/ verifyToken(token).isNull)

\* listCourses, getCourse, createCourse, updateCourse, deleteCourse: fetch
\* with the headers of getAuthHeaders(), then throw the response's error.
ClientCall(op) ==
    LET token == AuthToken(client) IN
    /\ op # "seed"
    /\ client' = [client EXCEPT
            !.cached = CacheAfterAuth(client),
            !.last = [op |-> op, sent |-> TRUE, auth |-> token,
                      error |-> IF ~Answers401(op, token) THEN ""
                                ELSE IF TruthyS(token) THEN "Invalid token"
                                ELSE "Authentication required"]]
    /\ UNCHANGED <<restVars, migrate, clamp, conv, seed, page, resolver, normal, pager, detail, auth>>

\* seedCourses: throws before the fetch without an Authorization header,
\* and drops the cached token on a 401.
ClientSeed ==
    LET token == AuthToken(client) IN
    /\ IF ~TruthyS(token)
       THEN client' = [client EXCEPT
                !.cached = CacheAfterAuth(client),
                !.last = [op |-> "seed", sent |-> FALSE, auth |-> Absent,
                          error |-> "Authentication required. Please sign in first."]]
       ELSE IF Answers401("seed", token)
       THEN client' = [client EXCEPT
                !.cached = Absent,
                !.last = [op |-> "seed", sent |-> TRUE, auth |-> token,
                          error |-> "Authentication failed. Please sign in again."]]
       ELSE client' = [client EXCEPT
                !.cached = CacheAfterAuth(client),
                !.last = [op |-> "seed", sent |-> TRUE, auth |-> token, error |-> ""]]
    /\ UNCHANGED <<restVars, migrate, clamp, conv, seed, page, resolver, normal, pager, detail, auth>>

(***************************************************************************)
(* The batch loop of POST /api/seed-courses, request by request.  A batch  *)
(* of at most BatchSize records is mapped over: every record's fetch is    *)
(* started, the fetches settle in any order, each settlement counts a      *)
(* success or an error, and the loop goes on when all have settled.  The   *)
(* 200 ms pause between batches is part of the step to the next batch.     *)
(***************************************************************************)
\* Bound: the counts of the runs tried are 1..MaxSeedRun.
MaxSeedRun == 10

BatchSize == 5

\* How a record's fetch settles: answered ok, answered not ok, rejected.
Settlements == {"ok", "not_ok", "rejected"}

IdleSeed ==
    [pc |-> "idle", count |-> 0, i |-> 0, pending |-> {},
     attempts |-> [k \in {} |-> 0], stored |-> {},
     successCount |-> 0, errorCount |-> 0,
     resp |-> [requested |-> 0, created |-> 0, errors |-> 0]]

\* Mutant: the batch is all that is left of the list.
Batch_Rest(i, count) == {k \in 0..(count - 1) : i <= k}

\* courses.slice(i, i + batchSize), as indexes.
Batch(i, count) == {k \in 0..(count - 1) : i <= k /\ k < i + BatchSize}

\* The run once the fetches of the batch from i on have been started.
StartBatch(s, i) ==
    [s EXCEPT !.pc = "batch", !.i = i, !.pending = Batch(i, s.count),
              !.attempts = [k \in DOMAIN s.attempts |->
                               IF k \in Batch(i, s.count) THEN s.attempts[k] + 1
                               ELSE s.attempts[k]]]

\* Mutant: a failed record is not counted.
CountError_Dropped(s) == s

\* catch: errorCount++
CountError(s) == [s EXCEPT !.errorCount = s.errorCount + 1]

\* successCount++
CountSuccess(s) == [s EXCEPT !.successCount = s.successCount + 1]

\* The handler reaches the loop with the count it computed.
SeedRun(count) ==
    /\ seed.pc \in {"idle", "done"}
    /\ seed' = StartBatch([IdleSeed EXCEPT !.count = count,
                                           !.attempts = [k \in 0..(count - 1) |-> 0]], 0)
    /\ UNCHANGED <<restVars, migrate, clamp, conv, client, page, resolver, normal, pager, detail, auth>>

\* The fetch of record k settles.
SeedSettle(k, how) ==
    /\ seed.pc = "batch"
    /\ k \in seed.pending
    /\ seed' = [(IF how = "ok" THEN CountSuccess(seed) ELSE CountError(seed))
                    EXCEPT !.pending = seed.pending \ {k},
                           !.stored = IF how = "ok" THEN seed.stored \cup {k}
                                      ELSE seed.stored]
    /\ UNCHANGED <<restVars, migrate, clamp, conv, client, page, resolver, normal, pager, detail, auth>>

\* Promise.all has resolved and records remain: i += batchSize.
SeedNextBatch ==
    /\ seed.pc = "batch"
    /\ seed.pending = {}
    /\ seed.i + BatchSize < seed.count
    /\ seed' = StartBatch(seed, seed.i + BatchSize)
    /\ UNCHANGED <<restVars, migrate, clamp, conv, client, page, resolver, normal, pager, detail, auth>>

\* Promise.all has resolved and no record remains: the response.
SeedRespond ==
    /\ seed.pc = "batch"
    /\ seed.pending = {}
    /\ ~(seed.i + BatchSize < seed.count)
    /\ seed' = [seed EXCEPT !.pc = "done",
                            !.resp = [requested |-> seed.count,
                                      created |-> seed.successCount,
                                      errors |-> seed.errorCount]]
    /\ UNCHANGED <<restVars, migrate, clamp, conv, client, page, resolver, normal, pager, detail, auth>>

(***************************************************************************)
(* The listing page.  A text is a sequence of characters, so that          *)
(* toLowerCase() and includes() are computed as the page computes them; an *)
(* optional text or list is <<>> or <<value>>.  The page's price is a      *)
(* number of thousandths and created_at a number of days.                  *)
(***************************************************************************)
\* Bound: the number of courses the listing endpoint returns to the page.
MaxListed == 3

\* String.prototype.toLowerCase, on the characters used.
Lower(ch) ==
    CASE ch = "A" -> "a"
      [] ch = "B" -> "b"
      [] OTHER -> ch

ToLower(s) == [k \in 1..Len(s) |-> Lower(s[k])]

\* String.prototype.includes
Includes(s, q) ==
    \E k \in 0..(Len(s) - Len(q)) : SubSeq(s, k + 1, k + Len(q)) = q

All == <<"a", "l", "l">>

\* The courses GET /api/courses may return to the page.
ApiCourses ==
    { [id |-> 1, title |-> <<<<"A", "b">>>>, description |-> <<>>,
       category |-> <<<<"A">>>>, tags |-> <<>>, priceCents |-> <<4999>>,
       price |-> <<>>, status |-> "published", owner_id |-> "m1",
       created_at |-> <<3>>],
      [id |-> 2, title |-> <<<<"b">>>>, description |-> <<<<"a", "B">>>>,
       category |-> <<<<"b">>>>, tags |-> << << <<"B", "a">> >> >>,
       priceCents |-> <<>>, price |-> <<0>>, status |-> "published",
       owner_id |-> "m2", created_at |-> <<>>],
      [id |-> 3, title |-> <<>>, description |-> <<>>,
       category |-> <<>>, tags |-> << <<>> >>, priceCents |-> <<>>,
       price |-> <<10000>>, status |-> "draft", owner_id |-> "m1",
       created_at |-> <<1>>],
      [id |-> 4, title |-> <<<<"B", "A", "b">>>>, description |-> <<>>,
       category |-> <<<<"A">>>>, tags |-> << << <<"a">>, <<"b">> >> >>,
       priceCents |-> <<1000>>, price |-> <<>>, status |-> "published",
       owner_id |-> "m2", created_at |-> <<3>>] }

\* The lists of at most MaxListed different courses.
ApiLists ==
    UNION {{l \in [1..n -> ApiCourses] :
               \A a, b \in 1..n : a # b => l[a].id # l[b].id} : n \in 0..MaxListed}

Queries == {<<>>, <<"a">>, <<"A", "B">>, <<"b">>}

Categories == {All, <<"A">>, <<"b">>}

PriceFilters == {"all", "free", "paid"}

SortOrders == {"newest", "price-low", "price-high", "rating"}

IdlePage ==
    [courses |-> <<>>, filteredCourses |-> <<>>, searchQuery |-> <<>>,
     selectedCategory |-> All, sortBy |-> "newest", priceFilter |-> "all"]

\* formattedCourses: the defaults loadCourses fills in.
FormatCourse(course) ==
    [id          |-> course.id,
     title       |-> IF course.title = <<>> THEN <<>> ELSE course.title[1],
     description |-> IF course.description = <<>> THEN <<>> ELSE course.description[1],
     owner_id    |-> course.owner_id,
     price       |-> ReadPrice(course)[1],
     status      |-> ReadStatus(course),
     category    |-> course.category,
     tags        |-> course.tags,
     created_at  |-> course.created_at]

\* c.status === "published" || c.owner_id === user.id || ...
VisibleOnPage(c, user) ==
    c.status = "published" \/ (user # Absent /\ c.owner_id = user)

\* The list loadCourses keeps from the response's courses.
LoadedCourses(api, user) ==
    SelectSeq([k \in 1..Len(api) |-> FormatCourse(api[k])],
              LAMBDA c : VisibleOnPage(c, user))

\* selectedCategory !== "all" => c.category === selectedCategory
MatchesCategory(c, selected) ==
    selected = All \/ (c.category # <<>> /\ c.category[1] = selected)

\* Mutant: the search compares the texts as they are.
MatchesSearch_CaseSensitive(c, searchQuery) ==
    \/ searchQuery = <<>>
    \/ Includes(c.title, searchQuery)
    \/ Includes(c.description, searchQuery)
    \/ (c.category # <<>> /\ Includes(c.category[1], searchQuery))
    \/ (c.tags # <<>> /\ \E t \in 1..Len(c.tags[1]) :
                            Includes(c.tags[1][t], searchQuery))

\* The search in title, description, category and tags, all lowercased.
MatchesSearch(c, searchQuery) ==
    LET query == ToLower(searchQuery) IN
    \/ searchQuery = <<>>
    \/ Includes(ToLower(c.title), query)
    \/ Includes(ToLower(c.description), query)
    \/ (c.category # <<>> /\ Includes(ToLower(c.category[1]), query))
    \/ (c.tags # <<>> /\ \E t \in 1..Len(c.tags[1]) :
                            Includes(ToLower(c.tags[1][t]), query))

\* free: !c.price || c.price === 0; paid: c.price && c.price > 0
MatchesPrice(c, priceFilter) ==
    CASE priceFilter = "free" -> c.price = 0
      [] priceFilter = "paid" -> c.price # 0 /\ c.price > 0
      [] OTHER -> TRUE

\* What the comparator of sortBy subtracts: a.price || 0, its negative, or
\* the negative of the creation time (0 without created_at).
SortKey(c, sortBy) ==
    CASE sortBy = "price-low"  -> c.price
      [] sortBy = "price-high" -> 0 - c.price
      [] OTHER -> 0 - (IF c.created_at = <<>> THEN 0 ELSE c.created_at[1])

RECURSIVE Insert(_, _, _)
Insert(x, s, sortBy) ==
    IF s = <<>> THEN <<x>>
    ELSE IF SortKey(x, sortBy) < SortKey(Head(s), sortBy) THEN <<x>> \o s
    ELSE <<Head(s)>> \o Insert(x, Tail(s), sortBy)

RECURSIVE Sorted(_, _)
\* Array.prototype.sort with the comparator of sortBy: a stable sort.
Sorted(s, sortBy) ==
    IF s = <<>> THEN <<>>
    ELSE Insert(s[Len(s)], Sorted(SubSeq(s, 1, Len(s) - 1), sortBy), sortBy)

\* The orders of s: what a sort with a random comparator may leave.
Shuffles(s) ==
    {[k \in 1..Len(s) |-> s[f[k]]] :
        f \in {g \in [1..Len(s) -> 1..Len(s)] :
                 \A a, b \in 1..Len(s) : a # b => g[a] # g[b]}}

\* The lists the filter effect may set for the page state pg.
Filtered(pg) ==
    LET kept == SelectSeq(pg.courses,
                    LAMBDA c : /\ MatchesCategory(c, pg.selectedCategory)
                               /\ MatchesSearch(c, pg.searchQuery)
                               /\ MatchesPrice(c, pg.priceFilter))
    IN IF pg.sortBy = "rating" THEN Shuffles(kept)
       ELSE {Sorted(kept, pg.sortBy)}

\* A state change of the page followed by the filter effect.
Render(pg) ==
    /\ \E f \in Filtered(pg) : page' = [pg EXCEPT !.filteredCourses = f]
    /\ UNCHANGED <<restVars, migrate, clamp, conv, seed, client, resolver, normal, pager, detail, auth>>

\* loadCourses(): the response's courses, or none when the request failed.
LoadCourses(api, user, ok) ==
    Render([page EXCEPT !.courses = IF ok THEN LoadedCourses(api, user) ELSE <<>>])

SetSearchQuery(q) == Render([page EXCEPT !.searchQuery = q])

SetSelectedCategory(category) == Render([page EXCEPT !.selectedCategory = category])

SetSortBy(order) == Render([page EXCEPT !.sortBy = order])

SetPriceFilter(option) == Render([page EXCEPT !.priceFilter = option])

ClearFilters ==
    Render([page EXCEPT !.searchQuery = <<>>, !.selectedCategory = All,
                        !.sortBy = "newest", !.priceFilter = "all"])


(***************************************************************************)
(* The token resolution of loginMember and signupMember.  The result of    *)
(* the SDK's login or signup call is reduced to the five places a token is *)
(* looked for and the two member objects; the SDK instance to its three    *)
(* token methods (unavailable, or what a call gives: nothing, a token, an  *)
(* exception) and its three token properties.                              *)
(***************************************************************************)
\* What a place of the result holds: nothing, an empty text, or a token
\* named after the place.
Held(tok) == {Absent, "", tok}

Results ==
    [data_tokens_accessToken : Held("t1"), data_token : Held("t2"),
     token : Held("t3"), data_accessToken : Held("t4"), accessToken : Held("t5")]

NoResultToken ==
    [data_tokens_accessToken |-> Absent, data_token |-> Absent,
     token |-> Absent, data_accessToken |-> Absent, accessToken |-> Absent]

\* A member object of the result: none, or its token and accessToken.
NoMember == [present |-> FALSE, token |-> Absent, accessToken |-> Absent]

MemberObjects(tok, acc) ==
    {NoMember} \cup
    {[present |-> TRUE, token |-> t, accessToken |-> a] :
        t \in {Absent, tok}, a \in {Absent, acc}}

\* A token method of the SDK instance.
MethodStates(tok) == {"unavailable", "null", tok, "throws"}

SdkInstances ==
    [getToken : MethodStates("s1"), getAccessToken : MethodStates("s2"),
     getSessionToken : MethodStates("s3"),
     token : {Absent, "s4"}, accessToken : {Absent, "s5"},
     sessionToken : {Absent, "s6"}]

BareSdk ==
    [getToken |-> "unavailable", getAccessToken |-> "unavailable",
     getSessionToken |-> "unavailable", token |-> Absent,
     accessToken |-> Absent, sessionToken |-> Absent]

\* The logins tried: every result with a bare SDK, and every SDK and pair
\* of member objects with a result that holds no token or empty texts only.
ResolverInputs ==
    {[result |-> r, sdk |-> BareSdk, dataMember |-> NoMember, member |-> NoMember] :
        r \in Results}
    \cup
    {[result |-> r, sdk |-> k, dataMember |-> dm, member |-> m] :
        r \in {NoResultToken, [NoResultToken EXCEPT !.token = "", !.data_token = ""]},
        k \in SdkInstances,
        dm \in MemberObjects("m1t", "m1a"), m \in MemberObjects("m2t", "m2a")}

\* a || b
OrElse(a, b) == IF TruthyS(a) THEN a ELSE b

\* result?.data?.tokens?.accessToken || result?.data?.token || result?.token
\*   || result?.data?.accessToken || result?.accessToken
ResultToken(r) ==
    OrElse(r.data_tokens_accessToken,
        OrElse(r.data_token, OrElse(r.token, OrElse(r.data_accessToken, r.accessToken))))

\* What a called method leaves in token; "throws" when the call throws.
Called(m) == IF m = "null" THEN Absent ELSE m

\* The if / else-if chain over the SDK instance.
SdkToken(k) ==
    IF k.getToken # "unavailable" THEN Called(k.getToken)
    ELSE IF k.getAccessToken # "unavailable" THEN Called(k.getAccessToken)
    ELSE IF k.getSessionToken # "unavailable" THEN Called(k.getSessionToken)
    ELSE IF TruthyS(k.token) THEN k.token
    ELSE IF TruthyS(k.accessToken) THEN k.accessToken
    ELSE IF TruthyS(k.sessionToken) THEN k.sessionToken
    ELSE Absent

\* member.token || member.accessToken of a member object of the result.
MemberToken(m) == IF m.present THEN OrElse(m.token, m.accessToken) ELSE Absent

\* Mutant: the member objects are looked at before the SDK.
ResolveToken_MemberFirst(in) ==
    LET fromResult == ResultToken(in.result)
        fromMember == OrElse(MemberToken(in.dataMember), MemberToken(in.member))
    IN IF TruthyS(fromResult) THEN fromResult
       ELSE IF TruthyS(fromMember) THEN fromMember
       ELSE IF SdkToken(in.sdk) = "throws" THEN Absent
       ELSE SdkToken(in.sdk)

\* The token loginMember ends with, Absent for null.  An exception of the
\* SDK probe is caught, and skips the look at the member objects.
ResolveToken(in) ==
    LET fromResult == ResultToken(in.result)
        fromSdk    == SdkToken(in.sdk)
    IN IF TruthyS(fromResult) THEN fromResult
       ELSE IF fromSdk = "throws" THEN Absent
       ELSE IF TruthyS(fromSdk) THEN fromSdk
       ELSE IF TruthyS(MemberToken(in.dataMember)) THEN MemberToken(in.dataMember)
       ELSE IF TruthyS(MemberToken(in.member)) THEN MemberToken(in.member)
       ELSE Absent

IdleResolver ==
    [pc |-> "idle", op |-> "none",
     in |-> [result |-> NoResultToken, sdk |-> BareSdk,
             dataMember |-> NoMember, member |-> NoMember],
     cachedBefore |-> Absent, cached |-> Absent, token |-> Absent,
     consulted |-> FALSE, threw |-> FALSE]

\* loginMember / signupMember from the SDK call's result on.
Resolve(op) ==
    LET token == ResolveToken(resolver.in) IN
    /\ resolver.pc = "called"
    /\ resolver' = [resolver EXCEPT
            !.pc = "done", !.op = op, !.token = token,
            !.consulted = ~TruthyS(ResultToken(resolver.in.result)),
            !.threw = FALSE,
            !.cached = IF TruthyS(token) THEN token ELSE resolver.cached]
    /\ UNCHANGED <<restVars, migrate, clamp, conv, seed, client, page, normal, pager, detail, auth>>

(***************************************************************************)
(* The record normalizer of the server's helpers.  A raw record is reduced *)
(* to its outer id and, when it has a nested data object, the id inside    *)
(* that object; an id is Absent when the object has no such key.           *)
(***************************************************************************)
NoData == <<>>

RawRecords ==
    {[id |-> o, data |-> dt] :
        o \in {Absent, "", "A"},
        dt \in {NoData} \cup {<<[id |-> n]>> : n \in {Absent, "", "A", "B"}}}

\* The places a record is normalized: listCourses, listLessons, and the
\* four lookups of getCourse (the record of findUnique, the bare data of
\* findUnique, the first record of findMany, the direct GET).
NormalizerPaths ==
    {"listCourses", "listLessons", "findUnique", "findUniqueData", "findMany", "direct"}

\* record.data || record, as far as the id goes.
BagId(record) == IF record.data # NoData THEN record.data[1].id ELSE record.id

\* { id: first, ...bag }: a key id of the bag replaces the one written first.
SpreadOver(first, bagId) == IF bagId # Absent THEN bagId ELSE first

NoResult == [kind |-> "null", id |-> Absent]

CourseWithId(id) == [kind |-> "course", id |-> id]

\* { id: record.id || recordData.id, ...recordData }
NormalizeRecord(record) ==
    CourseWithId(SpreadOver(OrElse(record.id, BagId(record)), BagId(record)))

\* What the place makes of the raw record.
Normalized(path, record) ==
    CASE path = "findUnique" ->
            \* { ...recordData, id: record.id } with recordData = record.data || {}
            CourseWithId(record.id)
      [] path = "direct" ->
            \* null without record.id, else { id: record.id, ...(record.data || record) }
            IF ~TruthyS(record.id) THEN NoResult
            ELSE CourseWithId(SpreadOver(record.id, BagId(record)))
      [] OTHER -> NormalizeRecord(record)

IdleNormal ==
    [pc |-> "idle", path |-> "none", record |-> [id |-> Absent, data |-> NoData],
     out |-> NoResult, status |-> 0]

\* The record arrives at one of the places; for a lookup of getCourse the
\* status of GET /api/courses/:id follows (the record has no status field
\* and so counts as published).
Normalize(path) ==
    LET out == Normalized(path, normal.record) IN
    /\ normal.pc = "raw"
    /\ normal' = [normal EXCEPT
            !.pc = "done", !.path = path, !.out = out,
            !.status = IF path \in {"listCourses", "listLessons"} THEN 0
                       ELSE IF out.kind = "null" THEN CourseNotFound.status
                       ELSE 200]
    /\ UNCHANGED <<restVars, migrate, clamp, conv, seed, client, page, resolver, pager, detail, auth>>

(***************************************************************************)
(* The pagination loop of listCourses.  The table holds the records of     *)
(* internalOrder 1..total; a query with after = a and take = pageSize is   *)
(* answered with the records a+1 .. a+pageSize that exist, in one of the   *)
(* body shapes the loop knows or in none of them.  allRecords is kept as   *)
(* the sequence of the pages appended, a page being the records            *)
(* after+1 .. after+n.                                                     *)
(***************************************************************************)
MaxTable == 250

PageSize == 100

RecordCap == 1000

TableSizes == {0, 40, PageSize, MaxTable}

\* The bodies: a bare array; data.records with a pagination object; the
\* same without one; data as an array; records at the top; data as one
\* object; anything else.
PageShapes ==
    {"array", "records_paged", "records_unpaged", "data_array", "records_key",
     "object", "unknown"}

\* What the data-table service reports with a page: the status, the shape,
\* pagination.hasMore === true, whether pagination.endCursor is there, and
\* whether the records carry internalOrder.
PageAnswers ==
    {[ok |-> FALSE, shape |-> "unknown", hasMore |-> FALSE, endCursor |-> FALSE,
      order |-> FALSE]}
    \cup {[ok |-> TRUE, shape |-> sh, hasMore |-> FALSE, endCursor |-> FALSE,
            order |-> o] :
              sh \in PageShapes \ {"records_paged"}, o \in BOOLEAN}
    \cup {[ok |-> TRUE, shape |-> "records_paged", hasMore |-> h, endCursor |-> e,
            order |-> FALSE] : h \in BOOLEAN, e \in BOOLEAN}

NoCursor == <<>>

NoAnswer ==
    [ok |-> TRUE, shape |-> "none", hasMore |-> FALSE, endCursor |-> FALSE,
     order |-> FALSE]

IdlePager ==
    [pc |-> "idle", total |-> 0, cursor |-> NoCursor, allRecords |-> <<>>,
     last |-> NoAnswer, lastCount |-> 0]

\* queryBody.query.findMany.after: the cursor as a number, or none.
After(cursor) == IF cursor = NoCursor THEN 0 ELSE cursor[1]

\* The number of records the table has for { after, take: pageSize }.
PageCount(total, after) ==
    IF total - after <= 0 THEN 0
    ELSE IF total - after >= PageSize THEN PageSize
    ELSE total - after

\* records.length for the body's shape: data as one object is one record.
RecordsIn(shape, count) ==
    IF shape = "object" THEN 1 ELSE count

RECURSIVE Gathered(_)
\* allRecords.length
Gathered(pages) ==
    IF pages = <<>> THEN 0 ELSE Head(pages).n + Gathered(Tail(pages))

\* Mutant: without an end cursor the loop goes on after the page it has.
CursorAfter_KeepsPlace(cursor, answer, n) ==
    IF answer.shape = "records_paged"
    THEN <<After(cursor) + n>>
    ELSE IF n > 0
         THEN (IF answer.order THEN <<After(cursor) + n>> ELSE NoCursor)
         ELSE cursor

\* pagination.endCursor?.toString() || null with a pagination object, else
\* the internalOrder of the last record of a page that has one.
CursorAfter(cursor, answer, n) ==
    IF answer.shape = "records_paged"
    THEN (IF answer.endCursor THEN <<After(cursor) + n>> ELSE NoCursor)
    ELSE IF n > 0
         THEN (IF answer.order THEN <<After(cursor) + n>> ELSE NoCursor)
         ELSE cursor

\* hasMore at the end of the iteration.
HasMoreAfter(answer, n, gathered) ==
    /\ IF answer.shape = "records_paged" THEN answer.hasMore ELSE n = PageSize
    /\ n # 0
    /\ gathered <= RecordCap

\* One turn of the while loop: the query, the answer, the bookkeeping.
PagerFetch(answer) ==
    LET after == After(pager.cursor)
        n     == RecordsIn(answer.shape, PageCount(pager.total, after))
        all   == IF n = 0 THEN pager.allRecords
                 ELSE Append(pager.allRecords, [after |-> after, n |-> n])
    IN
    /\ pager.pc = "loop"
    /\ answer.shape = "object" => PageCount(pager.total, after) > 0
    /\ IF ~answer.ok
       THEN pager' = [pager EXCEPT !.pc = "thrown", !.last = answer, !.lastCount = 0]
       ELSE IF answer.shape = "unknown"
       THEN pager' = [pager EXCEPT !.pc = "done", !.last = answer, !.lastCount = 0]
       ELSE pager' = [pager EXCEPT
                !.pc = IF HasMoreAfter(answer, n, Gathered(all)) THEN "loop" ELSE "done",
                !.cursor = CursorAfter(pager.cursor, answer, n),
                !.allRecords = all,
                !.last = answer,
                !.lastCount = n]
    /\ UNCHANGED <<restVars, migrate, clamp, conv, seed, client, page, resolver, normal, detail, auth>>

(***************************************************************************)
(* The course detail page: the effect on courseId starts loadCourse, whose *)
(* fetch settles later; nothing ties a fetch to the courseId of the moment *)
(* it settles.                                                             *)
(***************************************************************************)
MaxLoads == 3

DetailIds == {"A", "B"}

\* How a fetch of /api/courses/:id settles: 200, 404, or another failure.
FetchOutcomes == {"ok", "not_found", "failed"}

NoFetch == [n |-> 0, id |-> "none", outcome |-> "none"]

IdleDetail ==
    [courseId |-> "none", loading |-> FALSE, course |-> <<>>, error |-> Absent,
     issued |-> 0, inflight |-> {}, last |-> NoFetch]

\* loadCourse up to its await: setLoading(true), setError(null), fetch.
StartLoad(d, id) ==
    [d EXCEPT !.courseId = id, !.loading = TRUE, !.error = Absent,
              !.issued = d.issued + 1,
              !.inflight = d.inflight \cup {[n |-> d.issued + 1, id |-> id]}]

\* Mutant: a response for another id than the current one is dropped.
CourseAfter_CurrentOnly(d, f, outcome) ==
    IF outcome = "ok" /\ f.id = d.courseId THEN <<f.id>> ELSE d.course

\* setCourse(data.course) on a 200, else the course stays.
CourseAfter(d, f, outcome) ==
    IF outcome = "ok" THEN <<f.id>> ELSE d.course

\* setError on a 404 and in the catch.
ErrorAfter(d, outcome) ==
    CASE outcome = "ok" -> d.error
      [] outcome = "not_found" -> "Course not found"
      [] OTHER -> "Failed to load course"

\* The router shows the page for another id: the effect runs loadCourse.
DetailNavigate(id) ==
    /\ detail.courseId # "none"
    /\ id # detail.courseId
    /\ detail.issued < MaxLoads
    /\ detail' = StartLoad(detail, id)
    /\ UNCHANGED <<restVars, migrate, clamp, conv, seed, client, page, resolver, normal, pager, auth>>

\* A fetch in flight settles and loadCourse runs to its end.
DetailSettle(f, outcome) ==
    /\ f \in detail.inflight
    /\ detail' = [detail EXCEPT
            !.course = CourseAfter(detail, f, outcome),
            !.error = ErrorAfter(detail, outcome),
            !.loading = FALSE,
            !.inflight = detail.inflight \ {f},
            !.last = [n |-> f.n, id |-> f.id, outcome |-> outcome]]
    /\ UNCHANGED <<restVars, migrate, clamp, conv, seed, client, page, resolver, normal, pager, auth>>

(***************************************************************************)
(* The browser's auth cache: the entries memberstack_user and              *)
(* memberstack_token of localStorage, and the member the SDK's session     *)
(* belongs to.  The token issued for member m is written TokenOf(m).       *)
(***************************************************************************)
AuthMembers == {"A", "B"}

TokenOf(m) == IF m = "A" THEN "tA" ELSE "tB"

\* What the SDK does when asked for a token: it has the token of its
\* session's member, it has none, or asking throws.
SdkReplies == {"token", "none", "throws"}

\* How the SDK's logout goes: the SDK was never initialised, the call
\* succeeds, the call throws.
LogoutCases == {"uninitialised", "ok", "throws"}

NoCache == [user |-> Absent, token |-> Absent]

IdleAuth ==
    [user |-> Absent, token |-> Absent, session |-> Absent,
     op |-> "none", before |-> NoCache]

\* The token the SDK yields for the session of member m.
SdkYields(reply, m) ==
    IF reply = "token" /\ m # Absent THEN TokenOf(m) ELSE Absent

\* memberstack_token once loginMember / signupMember of m has returned: the
\* token of the result if it has one, else the SDK's, else what was cached.
TokenAfterSdkLogin(cached, m, inResult, reply) ==
    IF inResult THEN TokenOf(m)
    ELSE IF TruthyS(SdkYields(reply, m)) THEN SdkYields(reply, m)
    ELSE cached

\* getToken() of the client: the cached token, else the SDK's.
ClientToken(cached, reply, session) ==
    IF TruthyS(cached) THEN cached ELSE SdkYields(reply, session)

\* memberstack_token once handleLogin / handleSignup has stored the member:
\* finalToken is the result's token, else getToken(); it is stored when
\* there is one.
TokenAfterDialog(cached, m, inResult, reply) ==
    LET afterSdk   == TokenAfterSdkLogin(cached, m, inResult, reply)
        finalToken == IF inResult THEN TokenOf(m)
                      ELSE ClientToken(afterSdk, reply, m)
    IN IF TruthyS(finalToken) THEN finalToken ELSE afterSdk

\* The dialog's handleLogin / handleSignup with loginMember / signupMember
\* inside.  A call the SDK rejects changes nothing.
AuthLogin(kind, m, accepted, inResult, reply) ==
    /\ kind \in {"login", "signup"}
    /\ auth' = IF ~accepted
               THEN [auth EXCEPT !.op = kind,
                                 !.before = [user |-> auth.user, token |-> auth.token]]
               ELSE [auth EXCEPT
                        !.user = m,
                        !.token = TokenAfterDialog(auth.token, m, inResult, reply),
                        !.session = m,
                        !.op = kind,
                        !.before = [user |-> auth.user, token |-> auth.token]]
    /\ UNCHANGED <<restVars, migrate, clamp, conv, seed, client, page, resolver, normal, pager, detail>>

\* The header's handleLogout: logoutMember, whose two branches both remove
\* the two entries, then clearAuthCache.
AuthLogout(case) ==
    /\ auth' = [auth EXCEPT
            !.user = Absent, !.token = Absent,
            !.session = IF case = "ok" THEN Absent ELSE auth.session,
            !.op = "logout",
            !.before = [user |-> auth.user, token |-> auth.token]]
    /\ UNCHANGED <<restVars, migrate, clamp, conv, seed, client, page, resolver, normal, pager, detail>>

\* getToken() called for a request's headers: a token found in the SDK is
\* stored.
AuthGetToken(reply) ==
    /\ auth' = [auth EXCEPT
            !.token = ClientToken(auth.token, reply, auth.session),
            !.op = "getToken",
            !.before = [user |-> auth.user, token |-> auth.token]]
    /\ UNCHANGED <<restVars, migrate, clamp, conv, seed, client, page, resolver, normal, pager, detail>>

\* seedCourses of the client with a cached token: a 401 removes the token.
AuthSeed(unauthorized) ==
    /\ TruthyS(auth.token)
    /\ auth' = [auth EXCEPT
            !.token = IF unauthorized THEN Absent ELSE auth.token,
            !.op = "seed",
            !.before = [user |-> auth.user, token |-> auth.token]]
    /\ UNCHANGED <<restVars, migrate, clamp, conv, seed, client, page, resolver, normal, pager, detail>>


Init ==
    /\ configured \in BOOLEAN
    /\ store \in {EmptyStore, [i \in {1} |-> LegacyRecord]}
    /\ req = NoRequest
    /\ resp = ErrorResponse(0, "")
    /\ calls = {}
    /\ migrate = IdleMigrate
    /\ clamp = IdleClamp
    /\ conv = IdleConv
    /\ seed = IdleSeed
    /\ client = IdleClient
    /\ page = IdlePage
    /\ resolver = IdleResolver
    /\ normal = IdleNormal
    /\ pager = IdlePager
    /\ detail = IdleDetail
    /\ auth = IdleAuth

(***************************************************************************)
(* The requests tried.  A handler of a mutating endpoint answers a request *)
(* without a verifiable token before it reads the body or calls the store, *)
(* so such a request is tried with two bodies and an available store only. *)
(***************************************************************************)
MemberHeaders == {h \in AuthHeaders : h.scheme = "Bearer" /\ AdminVerify(h.cred) \in Members}

AnonHeaders == AuthHeaders \ MemberHeaders

ListRequests ==
    {[header |-> h, ownerId |-> o, ext |-> e] :
        h \in AuthHeaders, o \in OwnerParams, e \in {"ok", "down"}}
    \cup
    {[header |-> h, ownerId |-> Absent, ext |-> "bad_shape"] :
        h \in {NoHeader, [scheme |-> "Bearer", cred |-> "tok_m1"]}}

GetRequests ==
    {[header |-> h, id |-> i, ext |-> e] :
        h \in AuthHeaders, i \in CourseIds, e \in QueryExt}

PostRequests ==
    {[header |-> h, body |-> b, ext |-> e] :
        h \in MemberHeaders, b \in PostBodies, e \in QueryExt}
    \cup
    {[header |-> h, body |-> b, ext |-> "ok"] :
        h \in AnonHeaders,
        b \in {NoBody, [NoBody EXCEPT !.title = "T", !.status = "archived"]}}

PutRequests ==
    {[header |-> h, id |-> i, body |-> b, ext |-> e] :
        h \in MemberHeaders, i \in CourseIds, b \in PutBodies, e \in MutateExt}
    \cup
    {[header |-> h, id |-> i, body |-> b, ext |-> "ok"] :
        h \in AnonHeaders, i \in CourseIds, b \in {[NoBody EXCEPT !.owner_id = "m2"]}}

DeleteRequests ==
    {[header |-> h, id |-> i, ext |-> e] :
        h \in MemberHeaders, i \in CourseIds, e \in MutateExt}
    \cup
    {[header |-> h, id |-> i, ext |-> "ok"] : h \in AnonHeaders, i \in CourseIds}

SeedRequests ==
    {[header |-> h, count |-> c, okSet |-> ok] :
        h \in MemberHeaders, c \in SeedCountParams, ok \in SUBSET (1..MaxCourses)}
    \cup
    {[header |-> h, count |-> <<1>>, okSet |-> {}] : h \in AnonHeaders}

Next ==
    \/ \E r \in ListRequests : ListGET(r.header, r.ownerId, r.ext)
    \/ \E r \in GetRequests : CourseGET(r.header, r.id, r.ext)
    \/ \E r \in PostRequests : CoursePOST(r.header, r.body, r.ext)
    \/ \E r \in PutRequests : CoursePUT(r.header, r.id, r.body, r.ext)
    \/ \E r \in DeleteRequests : CourseDELETE(r.header, r.id, r.ext)
    \/ \E r \in SeedRequests : SeedPOST(r.header, r.count, r.okSet)

Spec == Init /\ [][Next]_vars

(***************************************************************************)
(* The owner's requests with a price in the body.  The handlers are those  *)
(* above; the table starts empty or with one priced course of m1, and the  *)
(* bodies carry no price, zero, a negative price and prices of two and     *)
(* three decimals.                                                         *)
(***************************************************************************)
OwnerHeader == [scheme |-> "Bearer", cred |-> "tok_m1"]

\* Prices in thousandths: none, 0, -5, 19.99, 10, 0.005.
BodyPrices == {<<>>, <<0>>, <<-5000>>, <<19990>>, <<10000>>, <<5>>}

PricePostRequests ==
    {[header |-> OwnerHeader, body |-> [NoBody EXCEPT !.title = "T", !.price = p],
      ext |-> "ok"] : p \in BodyPrices}

PricePutRequests ==
    {[header |-> OwnerHeader, id |-> i, body |-> [NoBody EXCEPT !.price = p],
      ext |-> "ok"] : i \in CourseIds, p \in BodyPrices}

PriceReadRequests ==
    {[header |-> h, id |-> i, ext |-> "ok"] :
        h \in {NoHeader, OwnerHeader}, i \in CourseIds}

PriceInit ==
    /\ configured = TRUE
    /\ store \in {EmptyStore, [i \in {1} |-> PricedRecord]}
    /\ req = NoRequest
    /\ resp = ErrorResponse(0, "")
    /\ calls = {}
    /\ migrate = IdleMigrate
    /\ clamp = IdleClamp
    /\ conv = IdleConv
    /\ seed = IdleSeed
    /\ client = IdleClient
    /\ page = IdlePage
    /\ resolver = IdleResolver
    /\ normal = IdleNormal
    /\ pager = IdlePager
    /\ detail = IdleDetail
    /\ auth = IdleAuth

PriceNext ==
    \/ \E r \in PricePostRequests : CoursePOST(r.header, r.body, r.ext)
    \/ \E r \in PricePutRequests : CoursePUT(r.header, r.id, r.body, r.ext)
    \/ \E r \in PriceReadRequests : CourseGET(r.header, r.id, r.ext)
    \/ \E r \in PriceReadRequests : ListGET(r.header, Absent, r.ext)
    \/ \E r \in PriceReadRequests : CourseDELETE(OwnerHeader, r.id, r.ext)

SpecPrice == PriceInit /\ [][PriceNext]_vars

(***************************************************************************)
(* The seed count alone.                                                   *)
(***************************************************************************)
ClampInit ==
    /\ configured = TRUE
    /\ store = EmptyStore
    /\ req = NoRequest
    /\ resp = ErrorResponse(0, "")
    /\ calls = {}
    /\ migrate = IdleMigrate
    /\ clamp = IdleClamp
    /\ conv = IdleConv
    /\ seed = IdleSeed
    /\ client = IdleClient
    /\ page = IdlePage
    /\ resolver = IdleResolver
    /\ normal = IdleNormal
    /\ pager = IdlePager
    /\ detail = IdleDetail
    /\ auth = IdleAuth

ClampNext ==
    \/ \E c \in AskedCounts : SeedDirect(c)
    \/ \E c \in AskedCounts : SeedViaClient(c)

SpecClamp == ClampInit /\ [][ClampNext]_vars

(***************************************************************************)
(* The price conversions alone.                                            *)
(***************************************************************************)
ConvInit ==
    /\ configured = TRUE
    /\ store = EmptyStore
    /\ req = NoRequest
    /\ resp = ErrorResponse(0, "")
    /\ calls = {}
    /\ migrate = IdleMigrate
    /\ clamp = IdleClamp
    /\ conv = IdleConv
    /\ seed = IdleSeed
    /\ client = IdleClient
    /\ page = IdlePage
    /\ resolver = IdleResolver
    /\ normal = IdleNormal
    /\ pager = IdlePager
    /\ detail = IdleDetail
    /\ auth = IdleAuth

ConvNext ==
    \/ \E p \in 0..MaxPrice : ConvCreate(p)
    \/ \E p \in 0..MaxPrice : ConvUpdate(p)
    \/ \E i \in 0..MaxSeedIndex : ConvSeed(i)

SpecConv == ConvInit /\ [][ConvNext]_vars

(***************************************************************************)
(* The migration check alone, with and without the two credentials.        *)
(***************************************************************************)
MigrateInit ==
    /\ configured = TRUE
    /\ store = EmptyStore
    /\ req = NoRequest
    /\ resp = ErrorResponse(0, "")
    /\ calls = {}
    /\ migrate \in {[IdleMigrate EXCEPT !.secretKey = k, !.appId = a] :
                        k \in BOOLEAN, a \in BOOLEAN}
    /\ clamp = IdleClamp
    /\ conv = IdleConv
    /\ seed = IdleSeed
    /\ client = IdleClient
    /\ page = IdlePage
    /\ resolver = IdleResolver
    /\ normal = IdleNormal
    /\ pager = IdlePager
    /\ detail = IdleDetail
    /\ auth = IdleAuth

MigrateNext ==
    \/ \E c \in Checks : MigratePOST(c)
    \/ MigrateGET

SpecMigrate == MigrateInit /\ [][MigrateNext]_vars

(***************************************************************************)
(* The client alone, in and outside a browser, with every combination of   *)
(* cached token and SDK token.                                             *)
(***************************************************************************)
ClientInit ==
    /\ configured = TRUE
    /\ store = EmptyStore
    /\ req = NoRequest
    /\ resp = ErrorResponse(0, "")
    /\ calls = {}
    /\ migrate = IdleMigrate
    /\ clamp = IdleClamp
    /\ conv = IdleConv
    /\ seed = IdleSeed
    /\ client \in {[IdleClient EXCEPT !.window = w, !.cached = c, !.sdk = k] :
                       w \in BOOLEAN, c \in CachedTokens, k \in SdkTokens}
    /\ page = IdlePage
    /\ resolver = IdleResolver
    /\ normal = IdleNormal
    /\ pager = IdlePager
    /\ detail = IdleDetail
    /\ auth = IdleAuth

ClientNext ==
    \/ \E op \in ClientOps \ {"seed"} : ClientCall(op)
    \/ ClientSeed

SpecClient == ClientInit /\ [][ClientNext]_vars

(***************************************************************************)
(* The seed loop alone.                                                    *)
(***************************************************************************)
SeedInit ==
    /\ configured = TRUE
    /\ store = EmptyStore
    /\ req = NoRequest
    /\ resp = ErrorResponse(0, "")
    /\ calls = {}
    /\ migrate = IdleMigrate
    /\ clamp = IdleClamp
    /\ conv = IdleConv
    /\ seed = IdleSeed
    /\ client = IdleClient
    /\ page = IdlePage
    /\ resolver = IdleResolver
    /\ normal = IdleNormal
    /\ pager = IdlePager
    /\ detail = IdleDetail
    /\ auth = IdleAuth

SeedNext ==
    \/ \E count \in 1..MaxSeedRun : SeedRun(count)
    \/ \E k \in 0..(MaxSeedRun - 1), how \in Settlements : SeedSettle(k, how)
    \/ SeedNextBatch
    \/ SeedRespond

SpecSeed == SeedInit /\ [][SeedNext]_vars

(***************************************************************************)
(* The listing page alone.                                                 *)
(***************************************************************************)
PageInit ==
    /\ configured = TRUE
    /\ store = EmptyStore
    /\ req = NoRequest
    /\ resp = ErrorResponse(0, "")
    /\ calls = {}
    /\ migrate = IdleMigrate
    /\ clamp = IdleClamp
    /\ conv = IdleConv
    /\ seed = IdleSeed
    /\ client = IdleClient
    /\ page = IdlePage
    /\ resolver = IdleResolver
    /\ normal = IdleNormal
    /\ pager = IdlePager
    /\ detail = IdleDetail
    /\ auth = IdleAuth

PageNext ==
    \/ \E api \in ApiLists, user \in {Absent, "m1"}, ok \in BOOLEAN :
          LoadCourses(api, user, ok)
    \/ \E q \in Queries : SetSearchQuery(q)
    \/ \E category \in Categories : SetSelectedCategory(category)
    \/ \E order \in SortOrders : SetSortBy(order)
    \/ \E option \in PriceFilters : SetPriceFilter(option)
    \/ ClearFilters

SpecPage == PageInit /\ [][PageNext]_vars

(***************************************************************************)
(* The token resolution alone: every login tried, with and without a token *)
(* cached before.                                                          *)
(***************************************************************************)
ResolverInit ==
    /\ configured = TRUE
    /\ store = EmptyStore
    /\ req = NoRequest
    /\ resp = ErrorResponse(0, "")
    /\ calls = {}
    /\ migrate = IdleMigrate
    /\ clamp = IdleClamp
    /\ conv = IdleConv
    /\ seed = IdleSeed
    /\ client = IdleClient
    /\ page = IdlePage
    /\ resolver \in {[IdleResolver EXCEPT !.pc = "called", !.in = in,
                                           !.cachedBefore = c, !.cached = c] :
                        in \in ResolverInputs, c \in {Absent, "old"}}
    /\ normal = IdleNormal
    /\ pager = IdlePager
    /\ detail = IdleDetail
    /\ auth = IdleAuth

ResolverNext ==
    \/ Resolve("login")
    \/ Resolve("signup")

SpecResolver == ResolverInit /\ [][ResolverNext]_vars

(***************************************************************************)
(* The record normalizer alone.                                            *)
(***************************************************************************)
NormalInit ==
    /\ configured = TRUE
    /\ store = EmptyStore
    /\ req = NoRequest
    /\ resp = ErrorResponse(0, "")
    /\ calls = {}
    /\ migrate = IdleMigrate
    /\ clamp = IdleClamp
    /\ conv = IdleConv
    /\ seed = IdleSeed
    /\ client = IdleClient
    /\ page = IdlePage
    /\ resolver = IdleResolver
    /\ normal \in {[IdleNormal EXCEPT !.pc = "raw", !.record = r] : r \in RawRecords}
    /\ pager = IdlePager
    /\ detail = IdleDetail
    /\ auth = IdleAuth

NormalNext == \E path \in NormalizerPaths : Normalize(path)

SpecNormal == NormalInit /\ [][NormalNext]_vars

(***************************************************************************)
(* The read handlers over one stored record of any shape the table may     *)
(* hold: with or without priceCents, price, status and owner_id.           *)
(***************************************************************************)
StoredRecords ==
    {[title |-> "T", owner_id |-> o, status |-> st, priceCents |-> pc, price |-> pr] :
        o \in {Absent, "m1"}, st \in {Absent, "published", "draft"},
        pc \in {<<>>, <<0>>, <<4999>>}, pr \in {<<>>, <<0>>, <<25000>>}}

ReadInit ==
    /\ configured = TRUE
    /\ store \in {[i \in {1} |-> r] : r \in StoredRecords}
    /\ req = NoRequest
    /\ resp = ErrorResponse(0, "")
    /\ calls = {}
    /\ migrate = IdleMigrate
    /\ clamp = IdleClamp
    /\ conv = IdleConv
    /\ seed = IdleSeed
    /\ client = IdleClient
    /\ page = IdlePage
    /\ resolver = IdleResolver
    /\ normal = IdleNormal
    /\ pager = IdlePager
    /\ detail = IdleDetail
    /\ auth = IdleAuth

ReadNext ==
    \/ \E r \in PriceReadRequests : CourseGET(r.header, r.id, r.ext)
    \/ \E r \in PriceReadRequests : ListGET(r.header, Absent, r.ext)

SpecRead == ReadInit /\ [][ReadNext]_vars

(***************************************************************************)
(* The course detail page alone, from its mount on.                        *)
(***************************************************************************)
DetailInit ==
    /\ configured = TRUE
    /\ store = EmptyStore
    /\ req = NoRequest
    /\ resp = ErrorResponse(0, "")
    /\ calls = {}
    /\ migrate = IdleMigrate
    /\ clamp = IdleClamp
    /\ conv = IdleConv
    /\ seed = IdleSeed
    /\ client = IdleClient
    /\ page = IdlePage
    /\ resolver = IdleResolver
    /\ normal = IdleNormal
    /\ pager = IdlePager
    /\ detail \in {StartLoad(IdleDetail, id) : id \in DetailIds}
    /\ auth = IdleAuth

DetailNext ==
    \/ \E id \in DetailIds : DetailNavigate(id)
    \/ \E f \in detail.inflight, o \in FetchOutcomes : DetailSettle(f, o)

SpecDetail == DetailInit /\ [][DetailNext]_vars

(***************************************************************************)
(* The pagination loop alone.                                              *)
(***************************************************************************)
PagerInit ==
    /\ configured = TRUE
    /\ store = EmptyStore
    /\ req = NoRequest
    /\ resp = ErrorResponse(0, "")
    /\ calls = {}
    /\ migrate = IdleMigrate
    /\ clamp = IdleClamp
    /\ conv = IdleConv
    /\ seed = IdleSeed
    /\ client = IdleClient
    /\ page = IdlePage
    /\ resolver = IdleResolver
    /\ normal = IdleNormal
    /\ pager \in {[IdlePager EXCEPT !.pc = "loop", !.total = t] : t \in TableSizes}
    /\ detail = IdleDetail
    /\ auth = IdleAuth

PagerNext == \E answer \in PageAnswers : PagerFetch(answer)

SpecPager == PagerInit /\ [][PagerNext]_vars

(***************************************************************************)
(* The auth cache alone, from an empty localStorage on.                    *)
(***************************************************************************)
AuthInit ==
    /\ configured = TRUE
    /\ store = EmptyStore
    /\ req = NoRequest
    /\ resp = ErrorResponse(0, "")
    /\ calls = {}
    /\ migrate = IdleMigrate
    /\ clamp = IdleClamp
    /\ conv = IdleConv
    /\ seed = IdleSeed
    /\ client = IdleClient
    /\ page = IdlePage
    /\ resolver = IdleResolver
    /\ normal = IdleNormal
    /\ pager = IdlePager
    /\ detail = IdleDetail
    /\ auth = IdleAuth

AuthNext ==
    \/ \E kind \in {"login", "signup"}, m \in AuthMembers, accepted \in BOOLEAN,
          inResult \in BOOLEAN, reply \in SdkReplies :
            AuthLogin(kind, m, accepted, inResult, reply)
    \/ \E case \in LogoutCases : AuthLogout(case)
    \/ \E reply \in SdkReplies : AuthGetToken(reply)
    \/ \E unauthorized \in BOOLEAN : AuthSeed(unauthorized)

SpecAuth == AuthInit /\ [][AuthNext]_vars

(***************************************************************************)
(* Properties.                                                             *)
(***************************************************************************)
\* The member the external platform issued the header's bearer token for,
\* "anon" without a bearer token or with one the platform does not verify.
IssuedTo(h) ==
    IF h.scheme = "Bearer" /\ AdminVerify(h.cred) \in Members
    THEN AdminVerify(h.cred) ELSE "anon"

Mutations == {"create", "update", "delete"}

\* The ids of the courses of a list response.
ListedIds(rs) == {rs.courses[k].id : k \in 1..Len(rs.courses)}

\* C1: a PUT or DELETE of a stored course by a verified member M is
\* forwarded to the store only if M is the course's owner; when M is not
\* the owner (and the lookup of the course succeeded) the answer is 403 and
\* nothing is forwarded.
C1_OwnerOnlyMutation ==
    [][ ( /\ req'.op \in {"update", "delete"}
          /\ configured
          /\ req'.id \in DOMAIN store
          /\ IssuedTo(req'.header) \in Members )
        => /\ (calls' \cap Mutations # {} \/ resp'.status = 200 \/ store' # store)
                => store[req'.id].owner_id = IssuedTo(req'.header)
           /\ (store[req'.id].owner_id # IssuedTo(req'.header) /\ req'.ext # "down")
                => /\ resp'.status = 403
                   /\ calls' \cap Mutations = {}
                   /\ store' = store ]_vars

\* C1 witness: a verified member who is not the owner was refused a PUT.
C1_Witness ==
    /\ req.op = "update"
    /\ resp.status = 403
    /\ req.id \in DOMAIN store
    /\ IssuedTo(req.header) \in Members
    /\ store[req.id].owner_id \in Members \ {IssuedTo(req.header)}

\* C2: with credentials configured, a request to a mutating endpoint (POST
\* /api/courses, PUT and DELETE /api/courses/:id, POST /api/seed-courses)
\* without a Bearer header, or with a token that does not verify, is
\* answered 401, makes no call to the store and leaves the table as it was.
C2_Unauthenticated401 ==
    [][ ( /\ req'.op \in {"create", "update", "delete", "seed"}
          /\ configured
          /\ IssuedTo(req'.header) = "anon" )
        => /\ resp'.status = 401
           /\ calls' = {}
           /\ store' = store ]_vars

\* C2 witness: a seed request whose token verification errored got 401.
C2_Witness ==
    /\ req.op = "seed"
    /\ req.header = [scheme |-> "Bearer", cred |-> "err"]
    /\ configured
    /\ resp.status = 401

\* C3 (as claimed): GET /api/courses without owner filter returns only
\* published courses to an unauthenticated caller, and to a verified member
\* M exactly the published courses and M's own unpublished ones.
C3_ListVisibility ==
    ( /\ req.op = "list"
      /\ configured
      /\ ~TruthyS(req.ownerId)
      /\ req.ext = "ok" )
    => /\ resp.status = 200
       /\ ListedIds(resp) =
            {i \in DOMAIN store :
                \/ ReadStatus(store[i]) = "published"
                \/ /\ IssuedTo(req.header) \in Members
                   /\ store[i].owner_id = IssuedTo(req.header)}

\* C4: GET /api/courses/:id returns a published course to every caller and
\* a draft or archived one only to the verified owner; every other caller
\* gets 404; the endpoint never answers 403.
C4_SingleVisibility ==
    /\ req.op = "get" => resp.status # 403
    /\ ( /\ req.op = "get"
         /\ configured
         /\ req.ext = "ok"
         /\ req.id \in DOMAIN store )
       => LET rec == store[req.id] IN
          /\ rec.status = "published"
               => /\ resp.status = 200
                  /\ resp.course[1].id = req.id
          /\ rec.status \in {"draft", "archived"}
               => IF IssuedTo(req.header) \in Members
                     /\ IssuedTo(req.header) = rec.owner_id
                  THEN /\ resp.status = 200
                       /\ resp.course[1].id = req.id
                  ELSE /\ resp.status = 404
                       /\ resp.course = NoCourse

\* C4 witness: a verified member asked for another member's unpublished
\* course and got 404.
C4_Witness ==
    /\ req.op = "get"
    /\ req.ext = "ok"
    /\ req.id \in DOMAIN store
    /\ store[req.id].status \in {"draft", "archived"}
    /\ IssuedTo(req.header) \in Members
    /\ store[req.id].owner_id \in Members \ {IssuedTo(req.header)}
    /\ resp.status = 404

\* C5 (as claimed): an unauthenticated GET /api/courses/:id of a stored
\* course whose status is not published, a missing status included, is
\* answered 404.
C5_NotPublished404 ==
    ( /\ req.op = "get"
      /\ configured
      /\ req.ext = "ok"
      /\ req.id \in DOMAIN store
      /\ store[req.id].status # "published"
      /\ IssuedTo(req.header) = "anon" )
    => resp.status = 404

\* C5 (amended): an unauthenticated GET /api/courses/:id of a stored course
\* is answered 404 when the course has a status other than published, and
\* 200 with the course when it has no status field.
C5_Amended ==
    ( /\ req.op = "get"
      /\ configured
      /\ req.ext = "ok"
      /\ req.id \in DOMAIN store
      /\ IssuedTo(req.header) = "anon" )
    => /\ store[req.id].status \notin {"published", Absent} => resp.status = 404
       /\ store[req.id].status = Absent
            => /\ resp.status = 200
               /\ resp.course[1].id = req.id

\* C5 witness: an unauthenticated caller was refused a draft with 404.
C5_Witness ==
    /\ req.op = "get"
    /\ req.ext = "ok"
    /\ req.id \in DOMAIN store
    /\ store[req.id].status = "draft"
    /\ req.header = NoHeader
    /\ resp.status = 404

\* C6 (as claimed): GET /api/courses?owner_id=X by a verified member other
\* than X returns only published courses.
C6_OwnerFilterHidesDrafts ==
    ( /\ req.op = "list"
      /\ TruthyS(req.ownerId)
      /\ IssuedTo(req.header) \in Members
      /\ IssuedTo(req.header) # req.ownerId
      /\ resp.status = 200 )
    => \A k \in 1..Len(resp.courses) : resp.courses[k].status = "published"

C8_OwnerImmutable ==
    [][ req'.op \in {"create", "update"}
        => \A i \in (DOMAIN store) \cap (DOMAIN store') :
               store'[i].owner_id = store[i].owner_id ]_vars

\* C9: the record an accepted POST /api/courses adds to the table has the
\* owner_id of the member the token verifies to, whatever the body says.
C9_CreatorOwns ==
    [][ req'.op = "create"
        => /\ \A i \in DOMAIN store' \ DOMAIN store :
                /\ IssuedTo(req'.header) \in Members
                /\ store'[i].owner_id = IssuedTo(req'.header)
           /\ resp'.status = 201
                => /\ resp'.course[1].id \in DOMAIN store' \ DOMAIN store
                   /\ resp'.course[1].owner_id = IssuedTo(req'.header) ]_vars

\* C9 witness: m1 created a course with a body naming m2 as owner.
C9_Witness ==
    /\ req.op = "create"
    /\ resp.status = 201
    /\ req.body.owner_id = "m2"
    /\ IssuedTo(req.header) = "m1"
    /\ store[resp.course[1].id].owner_id = "m1"

\* C10: POST /api/courses by a verified caller is answered 400 and creates
\* nothing when the title is missing or empty; with a title (and the store
\* accepting the record) it creates exactly one record and is answered 201
\* with that course; an unauthenticated request is answered 401 whether or
\* not it has a title.
C10_CreateStatuses ==
    [][ (req'.op = "create" /\ configured)
        => /\ (IssuedTo(req'.header) \in Members /\ req'.body.title \in {Absent, ""})
                => /\ resp'.status = 400
                   /\ store' = store
                   /\ calls' = {}
           /\ ( /\ IssuedTo(req'.header) \in Members
                /\ req'.body.title \notin {Absent, ""}
                /\ req'.ext = "ok" )
                => /\ resp'.status = 201
                   /\ Cardinality(DOMAIN store' \ DOMAIN store) = 1
                   /\ DOMAIN store \subseteq DOMAIN store'
                   /\ \A i \in DOMAIN store : store'[i] = store[i]
                   /\ resp'.course[1].id \in DOMAIN store' \ DOMAIN store
                   /\ resp'.course[1].title = req'.body.title
           /\ IssuedTo(req'.header) = "anon"
                => /\ resp'.status = 401
                   /\ store' = store ]_vars

\* C10 witness: an unauthenticated POST without title was answered 401.
C10_Witness ==
    /\ req.op = "create"
    /\ configured
    /\ IssuedTo(req.header) = "anon"
    /\ req.body.title = Absent
    /\ resp.status = 401

\* C11: a non-owner's GET /api/courses/:id of a stored course that is not
\* published gets the response, status code and error body alike, that an
\* id matching no course gets.
C11_HiddenLikeMissing ==
    ( /\ req.op = "get"
      /\ configured
      /\ req.ext = "ok"
      /\ req.id \in DOMAIN store
      /\ store[req.id].status \notin {"published", Absent}
      /\ IssuedTo(req.header) # store[req.id].owner_id )
    => /\ resp.status = CourseNotFound.status
       /\ resp.error = CourseNotFound.error

\* C18: when the external listing call fails, or answers with a body in
\* none of the recognised shapes, GET /api/courses (configured, no
\* authentication error) answers 200 with an empty list of courses and an
\* explanatory message, never an error status.
C18_ListDegrades ==
    ( /\ req.op = "list"
      /\ configured
      /\ ~OwnerFilterDenied(req.ownerId, verifyToken(BearerToken(req.header)))
      /\ req.ext \in {"down", "bad_shape"} )
    => /\ resp.status = 200
       /\ resp.courses = <<>>
       /\ resp.error # ""

\* The prices a response reports.
ReportedPrices(rs) ==
    {rs.courses[k].price : k \in 1..Len(rs.courses)}
    \cup {rs.course[k].price : k \in 1..Len(rs.course)}

\* C12: after any accepted POST or PUT, bodies with a negative price
\* included, no stored course has a negative priceCents and no list or get
\* response reports a negative price.
C12_PriceNeverNegative ==
    /\ \A i \in DOMAIN store :
          store[i].priceCents # <<>> => store[i].priceCents[1] >= 0
    /\ req.op \in {"list", "get"} =>
          \A pr \in ReportedPrices(resp) : pr # <<>> => pr[1] >= 0

\* C13: a PUT by the owner whose body carries a price p >= 0 (of at most
\* two decimals), p = 0 included, stores priceCents = round(p * 100), so
\* that a following GET reports p.
C13_PutStoresPrice ==
    ( /\ req.op = "update"
      /\ resp.status = 200
      /\ req.body.price # <<>>
      /\ req.body.price[1] >= 0
      /\ req.body.price[1] % 10 = 0 )
    => /\ store[req.id].priceCents = <<RoundCents(req.body.price[1])>>
       /\ ReadPrice(CourseOf(req.id, store[req.id])) = req.body.price

\* The count the claim expects for a count asked: 50 when none is given,
\* else the count brought into 1..200.
Clamped(asked) ==
    IF asked = <<>> THEN DefaultSeedCount
    ELSE IF asked[1] > MaxSeedCount THEN MaxSeedCount
    ELSE IF asked[1] <= 0 THEN 1
    ELSE asked[1]

\* C14: the seed handler uses the count asked for brought into 1..200
\* (above 200 gives 200, zero or a negative count gives 1, no count gives
\* 50), and the client's seed(count) applies the same clamp before sending.
C14_SeedClamp ==
    /\ clamp.via # "none" => clamp.used = Clamped(clamp.asked)
    /\ clamp.via = "client" =>
          clamp.sent = ClientCountParam(<<Clamped(clamp.asked)>>)

\* C20: for every price p >= 0 of at most two decimals, storing it as
\* priceCents = round(p * 100) on create, update or seed and reading it
\* back as priceCents / 100 returns p, and a second application of the
\* conversion gives the same result.
C20_PriceRoundTrip ==
    ( /\ conv.path # "none"
      /\ conv.p[1] % 10 = 0 )
    => /\ conv.reported = conv.p
       /\ conv.again = conv.reported

\* C19: POST /api/migrate returns the payload for a missing table
\* (tableExists false, needsCreation true, HTTP 200) exactly when the table
\* check answered 404; a successful check gives tableExists true; every
\* other failing status, a 500 whose body mentions "404" or "not found"
\* included, gives HTTP 500.
C19_MigrateOn404Only ==
    migrate.check.kind # "none" =>
        /\ migrate.resp = TableMissing
              <=> (migrate.check.kind = "answer" /\ migrate.check.status = 404)
        /\ CheckOk(migrate.check)
              => migrate.resp.status = 200 /\ migrate.resp.tableExists = <<TRUE>>
        /\ ( /\ migrate.check.kind = "answer"
             /\ ~CheckOk(migrate.check)
             /\ migrate.check.status # 404 )
              => migrate.resp.status = 500

\* C16: with no resolvable token the client's create, update, delete and
\* seed raise an authentication-required error locally, without sending an
\* HTTP request; list and get still send their request, without an
\* Authorization header.
C16_ClientFailsFast ==
    client.last.auth = Absent =>
        /\ client.last.op \in {"create", "update", "delete", "seed"}
              => ~client.last.sent /\ client.last.error # ""
        /\ client.last.op \in {"list", "get"}
              => client.last.sent /\ client.last.error = ""

\* C15: in a seed run every one of the count records is attempted exactly
\* once, a failed record aborts neither its batch nor the later batches,
\* and the response has created + errors = requested, created being the
\* number of external calls that succeeded.
C15_SeedIsolatesFailures ==
    /\ \A k \in DOMAIN seed.attempts : seed.attempts[k] <= 1
    /\ seed.pc = "done" =>
          /\ \A k \in 0..(seed.count - 1) : seed.attempts[k] = 1
          /\ seed.resp.requested = seed.count
          /\ seed.resp.created + seed.resp.errors = seed.resp.requested
          /\ seed.resp.created = Cardinality(seed.stored)

\* C15 witness: a run of two batches has answered after a record of the
\* first batch failed and a record of the second was stored.
C15_Witness ==
    /\ seed.pc = "done"
    /\ seed.count > BatchSize
    /\ \E k \in 0..(BatchSize - 1) : k \notin seed.stored
    /\ \E k \in BatchSize..(seed.count - 1) : k \in seed.stored
    /\ seed.resp.errors > 0

\* Two characters that are the same letter, whatever their case.
SameLetter(x, y) == x = y \/ {x, y} = {"a", "A"} \/ {x, y} = {"b", "B"}

\* q occurs in s, letter case ignored.
ContainsIgnoringCase(s, q) ==
    \E k \in 0..(Len(s) - Len(q)) :
        \A j \in 1..Len(q) : SameLetter(s[k + j], q[j])

\* The course c of the base list satisfies the page's active filters.
SatisfiesFilters(c) ==
    /\ page.selectedCategory # All => c.category = <<page.selectedCategory>>
    /\ page.searchQuery # <<>> =>
          \/ ContainsIgnoringCase(c.title, page.searchQuery)
          \/ ContainsIgnoringCase(c.description, page.searchQuery)
          \/ \E cat \in {c.category[k] : k \in 1..Len(c.category)} :
                ContainsIgnoringCase(cat, page.searchQuery)
          \/ \E tags \in {c.tags[k] : k \in 1..Len(c.tags)} :
                \E t \in 1..Len(tags) : ContainsIgnoringCase(tags[t], page.searchQuery)
    /\ page.priceFilter = "free" => c.price = 0
    /\ page.priceFilter = "paid" => c.price > 0

CreatedAt(c) == IF c.created_at = <<>> THEN 0 ELSE c.created_at[1]

\* C17: after the filter effect the displayed list holds exactly the
\* courses of the base list that satisfy every active filter (category
\* equal unless "all"; the search text a case-insensitive part of the
\* title, the description, the category or a tag; free a price of zero,
\* paid a price above zero), each once; it is in non-decreasing price
\* order under price-low, non-increasing price order under price-high, and
\* non-increasing created_at order under newest.
C17_FilterEffect ==
    LET shown == page.filteredCourses
        base  == page.courses
    IN
    /\ {shown[k] : k \in 1..Len(shown)} =
          {base[k] : k \in {j \in 1..Len(base) : SatisfiesFilters(base[j])}}
    /\ \A a, b \in 1..Len(shown) : a # b => shown[a].id # shown[b].id
    /\ page.sortBy = "price-low" =>
          \A k \in 1..(Len(shown) - 1) : shown[k].price <= shown[k + 1].price
    /\ page.sortBy = "price-high" =>
          \A k \in 1..(Len(shown) - 1) : shown[k].price >= shown[k + 1].price
    /\ page.sortBy = "newest" =>
          \A k \in 1..(Len(shown) - 1) : CreatedAt(shown[k]) >= CreatedAt(shown[k + 1])

\* C17 witness: with a category, an upper-case search text and the paid
\* filter set, one course of the base list is left out and two are shown,
\* by descending price, in the reverse of their order in the base list.
C17_Witness ==
    /\ page.selectedCategory # All
    /\ page.searchQuery = <<"A", "B">>
    /\ page.priceFilter = "paid"
    /\ page.sortBy = "price-high"
    /\ Len(page.courses) = 3
    /\ Len(page.filteredCourses) = 2
    /\ page.filteredCourses[1].price > page.filteredCourses[2].price
    /\ \E a, b \in 1..3 :
          /\ a < b
          /\ page.courses[a] = page.filteredCourses[2]
          /\ page.courses[b] = page.filteredCourses[1]

\* C21: in a seed run at most 5 create requests are in flight at any
\* moment, and no request of a later batch is issued before every request
\* of the batches before it has settled.
C21_BatchesInTurn ==
    /\ Cardinality(seed.pending) <= 5
    /\ \A a, b \in DOMAIN seed.attempts :
          (a \div 5 < b \div 5 /\ seed.attempts[b] > 0)
              => (seed.attempts[a] > 0 /\ a \notin seed.pending)

\* C21 witness: the five requests of the second batch are in flight after
\* a request of the first batch has failed.
C21_Witness ==
    /\ seed.pc = "batch"
    /\ seed.i = BatchSize
    /\ Cardinality(seed.pending) = BatchSize
    /\ seed.errorCount > 0

RECURSIVE FirstNonEmpty(_)
\* The first text of a sequence that is neither absent nor empty, Absent
\* when there is none.
FirstNonEmpty(texts) ==
    IF texts = <<>> THEN Absent
    ELSE IF Head(texts) \notin {Absent, ""} THEN Head(texts)
    ELSE FirstNonEmpty(Tail(texts))

\* The five places of the result, in the order of the claim.
FivePlaces(r) ==
    <<r.data_tokens_accessToken, r.data_token, r.token, r.data_accessToken, r.accessToken>>

\* What the SDK gives when consulted: the answer of the first of getToken,
\* getAccessToken, getSessionToken it has, else its first direct property.
SdkAnswer(k) ==
    LET methods == <<k.getToken, k.getAccessToken, k.getSessionToken>>
        has == {j \in 1..3 : methods[j] # "unavailable"}
    IN IF has # {}
       THEN methods[CHOOSE j \in has : \A l \in has : j <= l]
       ELSE FirstNonEmpty(<<k.token, k.accessToken, k.sessionToken>>)

\* The tokens of the member objects of the result, in the order looked at.
MemberPlaces(in) ==
    <<in.dataMember.token, in.dataMember.accessToken,
      in.member.token, in.member.accessToken>>

\* C22: the token resolution of a login or signup result takes the first
\* non-empty of data.tokens.accessToken, data.token, token,
\* data.accessToken, accessToken; only when all five miss does it consult
\* the SDK (getToken, getAccessToken, getSessionToken, then the direct
\* properties) and then the member objects' token / accessToken; with no
\* token anywhere, or a throwing SDK probe, the token is null, no
\* exception escapes and the token cache is not written.
C22_TokenResolution ==
    resolver.pc = "done" =>
        LET in    == resolver.in
            first == FirstNonEmpty(FivePlaces(in.result))
            sdk   == SdkAnswer(in.sdk)
        IN
        /\ ~resolver.threw
        /\ resolver.consulted <=> first = Absent
        /\ first # Absent => resolver.token = first
        /\ (first = Absent /\ sdk \notin {Absent, "null", "throws"})
              => resolver.token = sdk
        /\ (first = Absent /\ sdk \in {Absent, "null"})
              => resolver.token = FirstNonEmpty(MemberPlaces(in))
        /\ (first = Absent /\ sdk = "throws") => resolver.token = Absent
        /\ resolver.token = Absent => resolver.cached = resolver.cachedBefore
        /\ resolver.token # Absent => resolver.cached = resolver.token

\* C22 witness: with the five places empty or absent and an SDK whose
\* getToken gives nothing, the token of the second member object was
\* resolved and replaced the token cached before.
C22_Witness ==
    /\ resolver.pc = "done"
    /\ FirstNonEmpty(FivePlaces(resolver.in.result)) = Absent
    /\ resolver.in.result.token = ""
    /\ resolver.in.sdk.getToken = "null"
    /\ resolver.in.sdk.getAccessToken = "s2"
    /\ ~resolver.in.dataMember.present
    /\ resolver.token = "m2a"
    /\ resolver.cachedBefore = "old"
    /\ resolver.cached = "m2a"

\* C23: wherever a raw record is normalized (listCourses, every lookup of
\* getCourse, listLessons) the resulting id is the outer record's id when
\* the outer record has one, also when the nested data carries another
\* id; the inner id is used only when the outer id is absent.
C23_OuterIdWins ==
    (normal.pc = "done" /\ normal.out.kind = "course") =>
        /\ normal.record.id \notin {Absent, ""}
              => normal.out.id = normal.record.id
        /\ (normal.record.id \in {Absent, ""} /\ normal.record.data # NoData)
              => normal.out.id = normal.record.data[1].id

\* C24: a single-course lookup answered with a record that has no id,
\* neither outside nor in its nested data, makes getCourse yield null and
\* GET /api/courses/:id answer 404; a course with an undefined or empty id
\* is never returned.
C24_NoIdIsNotFound ==
    ( /\ normal.pc = "done"
      /\ normal.path \in {"findUnique", "findUniqueData", "findMany", "direct"} )
    => /\ ( /\ normal.record.id \in {Absent, ""}
            /\ BagId(normal.record) \in {Absent, ""} )
            => (normal.out.kind = "null" /\ normal.status = 404)
       /\ normal.out.kind = "course" => normal.out.id \notin {Absent, ""}

\* The courses of a 200 answer of a read handler.
CoursesRead(rs) ==
    {rs.courses[k] : k \in 1..Len(rs.courses)} \cup {rs.course[k] : k \in 1..Len(rs.course)}

\* C25: a read handler reports priceCents / 100 as the price of every
\* record that has a priceCents field, priceCents = 0 beside a non-zero
\* price included; else the record's price field; else 0.
C25_PriceFromCents ==
    (req.op \in {"list", "get"} /\ resp.status = 200) =>
        \A c \in CoursesRead(resp) :
            c.price = IF store[c.id].priceCents # <<>>
                      THEN <<CentsToPrice(store[c.id].priceCents[1])>>
                      ELSE IF store[c.id].price # <<>> THEN store[c.id].price
                      ELSE <<0>>

\* C26: a course created by a POST whose body has no status is stored as
\* a draft; a stored record without a status field is reported with the
\* status published by GET /api/courses and by GET /api/courses/:id, and
\* an unauthenticated reader gets it from both.
C26_StatusDefaults ==
    /\ (req.op = "create" /\ resp.status = 201 /\ req.body.status = Absent)
          => store[resp.course[1].id].status = "draft"
    /\ (req.op \in {"list", "get"} /\ resp.status = 200) =>
          \A c \in CoursesRead(resp) :
              store[c.id].status = Absent => c.status = "published"
    /\ (req.op = "list" /\ req.ext = "ok" /\ configured /\ req.ownerId = Absent) =>
          \A i \in DOMAIN store :
              store[i].status = Absent => \E c \in CoursesRead(resp) : c.id = i
    /\ (req.op = "get" /\ req.ext = "ok" /\ configured /\ req.id \in DOMAIN store) =>
          (store[req.id].status = Absent => resp.status = 200)

\* C27: a change of courseId leaves the fetches of loadCourse that are in
\* flight in flight, and a fetch that settles with a course is applied
\* whatever the courseId is by then; so a fetch for an earlier id that
\* settles after the newer one leaves its course on the page.
C27_StaleFetchApplied ==
    [][ /\ detail'.courseId # detail.courseId
            => detail.inflight \subseteq detail'.inflight
        /\ (detail'.last # detail.last /\ detail'.last.outcome = "ok")
            => detail'.course = <<detail'.last.id>> ]_vars

\* Every request has settled, the newest without an error, and the page
\* shows the course of an id that is not the current one.
C27_Witness ==
    /\ detail.inflight = {}
    /\ detail.issued > 1
    /\ detail.error = Absent
    /\ ~detail.loading
    /\ detail.last.n < detail.issued
    /\ detail.course # <<>>
    /\ detail.course # <<detail.courseId>>

\* Two pages appended hold a record in common.
Overlap(a, b) == a.after < b.after + b.n /\ b.after < a.after + a.n

\* C28: the loop of listCourses goes on only after a page that is not
\* empty, came with a pagination object whose hasMore is true, and left at
\* most 1000 records gathered; and the list it returns holds no record
\* twice, also when hasMore = true came without a usable cursor.
C28_StopsAndNoRepeat ==
    /\ (pager.pc = "loop" /\ pager.last # NoAnswer) =>
          /\ pager.lastCount > 0
          /\ pager.last.shape = "records_paged"
          /\ pager.last.hasMore
          /\ Gathered(pager.allRecords) <= RecordCap
    /\ pager.pc = "done" =>
          \A i, j \in DOMAIN pager.allRecords :
              i # j => ~Overlap(pager.allRecords[i], pager.allRecords[j])

\* C29: whenever the cache holds a member snapshot and a token, the token
\* was issued for that member; a login or signup of B that resolves no
\* token of its own leaves no token of A behind.
C29_TokenOfCachedMember ==
    (auth.user # Absent /\ auth.token # Absent) => auth.token = TokenOf(auth.user)

\* C30: after a logout both entries are absent, however the SDK's logout
\* went; and an operation that is neither a logout nor a login or signup
\* leaves both entries as they were.
C30_OnlyAuthOpsTouchCache ==
    /\ auth.op = "logout" => (auth.user = Absent /\ auth.token = Absent)
    /\ auth.op \in {"getToken", "seed"} =>
          (auth.user = auth.before.user /\ auth.token = auth.before.token)

====
